---- MODULE Spec2Model ----
(***************************************************************************)
(* Model of the indexer's derived-aggregate code:                          *)
(*   - the metadata-index-write-queue worker of                            *)
(*     src/models/collections/index.ts (attribute dictionaries, links,     *)
(*     counters, numeric ranges, sample images),                           *)
(*   - the Collections floor/top-bid recalculation and revalidation        *)
(*     methods of the same file,                                           *)
(*   - the get-bid-events v1 handler (cursor pagination).                  *)
(* Every SQL statement is one atomic step (autocommit, READ COMMITTED);    *)
(* a worker's position between two awaited statements is its pc.           *)
(***************************************************************************)
EXTENDS Integers, Sequences, FiniteSets, Bags, TLC

VARIABLES
    tokens,             \* tokens table: [<<contract, tokenId>> -> row]
    attribute_keys,     \* attribute_keys table: [<<collection, key>> -> row]
    attributes,         \* attributes table: [<<collection, key, value>> -> row]
    token_attributes,   \* token_attributes table: set of link rows
    resyncKeyJobs,      \* bag of resyncAttributeKeyCounts jobs
    resyncValueJobs,    \* bag of resyncAttributeValueCounts jobs
    queue,              \* metadata-index-write-queue: waiting jobs
    failed,             \* jobs parked after the last attempt
    completed,          \* log of completed jobs with the tables seen then
    pc,                 \* per worker slot: the statement it is about to run
    job,                \* per worker slot: the job it processes
    idx,                \* per worker slot: index of the current attribute
    attributesToRefresh, \* per worker slot: rows returned by the DELETE
    bid_events,         \* bid_events table: set of rows
    query,              \* the feed client's request.query
    cursor,             \* the continuation the client sends next
    pages,              \* the responses the client has received
    finished,           \* the client got a null continuation
    collections,        \* collections table: [id -> floor columns]
    orders,             \* orders table: [id -> row]
    token_sets,         \* token_sets table: [id -> row]
    token_sets_tokens,  \* token_sets_tokens table: set of rows
    orderUpdatesById,   \* jobs added to the order-updates by-id queue
    clock,              \* now()
    calls,              \* number of Collections methods called so far
    lastCall            \* the last Collections method call and how it ended

indexerVars == <<tokens, attribute_keys, attributes, token_attributes,
                 resyncKeyJobs, resyncValueJobs, queue, failed, completed,
                 pc, job, idx, attributesToRefresh>>

feedVars == <<bid_events, query, cursor, pages, finished>>

aggregateVars == <<collections, orders, token_sets, token_sets_tokens,
                   orderUpdatesById, clock, calls, lastCall>>

vars == <<indexerVars, feedVars, aggregateVars>>

----------------------------------------------------------------------------
(* Bounds of the model *)

MaxValue == 2           \* attribute values are the numerals 1..MaxValue
MaxAttributes == 2      \* longest attributes array of a payload
MaxEvents == 3          \* bid_events rows have the ids 1..MaxEvents
MaxCreatedAt == 2       \* number of distinct created_at instants
MaxLimit == 2           \* query.limit is in 1..MaxLimit (of 1..1000)
MaxPrice == 2           \* order and floor values are in 1..MaxPrice
MaxClock == 2           \* now() runs over 0..MaxClock
MaxCalls == 2           \* Collections method calls of a behaviour

(* Program constants *)

attempts == 10          \* defaultJobOptions.attempts
SampleImagesCap == 4    \* array_length(sample_images, 1) < 4

Workers == {"w1", "w2"}             \* concurrently processed jobs (of 30)
Contract == "0xc"
TokenIds == {"t1", "t2"}
Collection == "c1"
CollectionIds == {"c1", "c2"}
NULL == "NULL"                      \* SQL NULL in a text or bytea column
NullNumber == 0 - 1                 \* SQL NULL in a numeric column
Keys == {"k1", "k2"}
Values == 1..MaxValue
Images == {"", "a", "b"}            \* "" is an absent (falsy) imageUrl

KindOf(key) == IF key = "k1" THEN "number" ELSE "string"

Attribute(key, value) == [key |-> key, value |-> value, kind |-> KindOf(key)]

\* Attributes of the payloads: the number key with every value, the string
\* key with one value.
AttributePool == {Attribute("k1", v) : v \in Values} \cup {Attribute("k2", 1)}

RECURSIVE SeqsUpTo(_, _)
SeqsUpTo(S, n) ==
    IF n = 0 THEN {<<>>}
    ELSE LET shorter == SeqsUpTo(S, n - 1)
         IN  shorter \cup {Append(s, x) : s \in {q \in shorter : Len(q) = n - 1}, x \in S}

Min(S) == CHOOSE x \in S : \A y \in S : x <= y
Max(S) == CHOOSE x \in S : \A y \in S : x >= y

----------------------------------------------------------------------------
(* TokenMetadataInfo and the queue's jobs *)

TokenMetadataInfo(collection, contract, tokenId, imageUrl, attrs) ==
    [collection |-> collection, contract |-> contract, tokenId |-> tokenId,
     imageUrl |-> imageUrl, attributes |-> attrs]

NoData == TokenMetadataInfo("", "", "", "", <<>>)
NoJob == [data |-> NoData, attemptsMade |-> 0]
NewJob(data) == [data |-> data, attemptsMade |-> 0]

KeyId(collection, key) == <<collection, key>>
AttributeId(collection, key, value) == <<collection, key, value>>
TokenRef(data) == <<data.contract, data.tokenId>>

CurrentAttribute(w) == job[w].data.attributes[idx[w]]
CurrentKeyId(w) == KeyId(job[w].data.collection, CurrentAttribute(w).key)
CurrentAttributeId(w) ==
    AttributeId(job[w].data.collection, CurrentAttribute(w).key, CurrentAttribute(w).value)

Tables == [keys |-> attribute_keys, attrs |-> attributes, links |-> token_attributes]

----------------------------------------------------------------------------
(* SQL expressions of the worker *)

\* Mutant of WidenRange: the bounds are overwritten by the new value.
WidenRangeOverwrite(row, value) ==
    IF row.kind = "number" /\ row.info # <<>> THEN <<value, value>> ELSE <<>>

\* UPDATE attribute_keys SET info = CASE WHEN kind = 'number' THEN ... END:
\* a number key's range is widened to include value; any other key gets
\* NULL (no ELSE branch).  info is <<>> for NULL, <<min_range, max_range>>.
WidenRange(row, value) ==
    IF row.kind = "number" /\ row.info # <<>>
    THEN << IF row.info[1] > value THEN value ELSE row.info[1],
            IF row.info[2] < value THEN value ELSE row.info[2] >>
    ELSE <<>>

\* info of a key inserted for a payload attribute: {min_range: Number(value),
\* max_range: Number(value)} when the payload's kind is number, else null.
\* Number() is exact on the numerals of the model.
NewKeyInfo(kind, value) == IF kind = "number" THEN <<value, value>> ELSE <<>>

\* Mutant of SampleImageUpdate: the image is prepended without looking
\* for it in the array.
SampleImagePrepend(sample_images, image) ==
    IF Len(sample_images) < SampleImagesCap
    THEN <<image>> \o sample_images
    ELSE <<image>> \o SelectSeq(sample_images, LAMBDA x : x # sample_images[SampleImagesCap])

\* Mutant of SampleImageUpdate: a new image goes to the end of the array
\* and the first entry leaves a full array.
SampleImageUpdateAppend(sample_images, image) ==
    IF \E n \in 1..Len(sample_images) : sample_images[n] = image
    THEN sample_images
    ELSE IF Len(sample_images) < SampleImagesCap
    THEN sample_images \o <<image>>
    ELSE Tail(sample_images) \o <<image>>

\* Mutant of SampleImageUpdate: an absent image is prepended and nothing
\* is ever removed.
SampleImageUpdateNoEviction(sample_images, image) ==
    IF \E n \in 1..Len(sample_images) : sample_images[n] = image
    THEN sample_images
    ELSE <<image>> \o sample_images

\* The sample_images CASE expression.  sample_images is <<>> for NULL (the
\* statement never produces an empty non-null array).
SampleImageUpdate(sample_images, image) ==
    LET present == \E n \in 1..Len(sample_images) : sample_images[n] = image
    IN  IF Len(sample_images) < SampleImagesCap /\ ~present
        THEN <<image>> \o sample_images
        ELSE IF Len(sample_images) >= SampleImagesCap /\ ~present
        THEN <<image>> \o SelectSeq(sample_images,
                                    LAMBDA x : x # sample_images[SampleImagesCap])
        ELSE sample_images

\* Mutant of InsertedCount: a conflicting insert is counted as a row.
InsertedCountAlways(exists) == 1

\* Rows the INSERT ... ON CONFLICT DO NOTHING actually created (0 or 1).
InsertedCount(exists) == IF exists THEN 0 ELSE 1

----------------------------------------------------------------------------
(* The worker: one action per awaited statement *)

\* BullMQ hands a waiting job to a free worker slot.
StartJob(w) ==
    /\ pc[w] = "idle"
    /\ queue # <<>>
    /\ job' = [job EXCEPT ![w] = Head(queue)]
    /\ queue' = Tail(queue)
    /\ pc' = [pc EXCEPT ![w] = "updateToken"]
    /\ idx' = [idx EXCEPT ![w] = 0]
    /\ UNCHANGED <<tokens, attribute_keys, attributes, token_attributes,
                   resyncKeyJobs, resyncValueJobs, failed, completed,
                   attributesToRefresh>>
    /\ UNCHANGED <<feedVars, aggregateVars>>

\* The processor returned: the job is completed.  (Neither returning
\* statement writes one of the three attribute tables.)
JobCompleted(w) ==
    /\ completed' = Append(completed, [data |-> job[w].data, attemptsMade |-> job[w].attemptsMade,
                                     tables |-> Tables])
    /\ job' = [job EXCEPT ![w] = NoJob]
    /\ idx' = [idx EXCEPT ![w] = 0]
    /\ attributesToRefresh' = [attributesToRefresh EXCEPT ![w] = {}]
    /\ pc' = [pc EXCEPT ![w] = "idle"]
    /\ UNCHANGED <<queue, failed>>

\* The processor threw: the catch block logs and rethrows, and BullMQ
\* retries the job (after a backoff) until it has made `attempts` attempts.
JobFailed(w) ==
    LET made == job[w].attemptsMade + 1
    IN  /\ IF made < attempts
           THEN /\ queue' = Append(queue, [job[w] EXCEPT !.attemptsMade = made])
                /\ failed' = failed
           ELSE /\ failed' = failed \cup {job[w].data}
                /\ queue' = queue
        /\ job' = [job EXCEPT ![w] = NoJob]
        /\ idx' = [idx EXCEPT ![w] = 0]
        /\ attributesToRefresh' = [attributesToRefresh EXCEPT ![w] = {}]
        /\ pc' = [pc EXCEPT ![w] = "idle"]
        /\ UNCHANGED completed

\* Mutant of UpdateTokenMetadata: without a matching row the job throws.
UpdateTokenMetadataOrThrow(w) ==
    /\ pc[w] = "updateToken"
    /\ LET data == job[w].data
           t == TokenRef(data)
       IN  IF t \in DOMAIN tokens
           THEN /\ tokens' = [tokens EXCEPT ![t] =
                       [@ EXCEPT !.image = data.imageUrl,
                                 !.attributes = {<<data.attributes[n].key, data.attributes[n].value>> :
                                                    n \in 1..Len(data.attributes)}]]
                /\ pc' = [pc EXCEPT ![w] = "deleteTokenAttributes"]
                /\ UNCHANGED <<job, idx, queue, failed, completed, attributesToRefresh>>
           ELSE /\ tokens' = tokens
                /\ JobFailed(w)
    /\ UNCHANGED <<attribute_keys, attributes, token_attributes,
                   resyncKeyJobs, resyncValueJobs>>
    /\ UNCHANGED <<feedVars, aggregateVars>>

\* UPDATE tokens SET name, description, image, media, attributes ... RETURNING 1;
\* without a matching row the job returns.
UpdateTokenMetadata(w) ==
    /\ pc[w] = "updateToken"
    /\ LET data == job[w].data
           t == TokenRef(data)
       IN  IF t \in DOMAIN tokens
           THEN /\ tokens' = [tokens EXCEPT ![t] =
                       [@ EXCEPT !.image = data.imageUrl,
                                 !.attributes = {<<data.attributes[n].key, data.attributes[n].value>> :
                                                    n \in 1..Len(data.attributes)}]]
                /\ pc' = [pc EXCEPT ![w] = "deleteTokenAttributes"]
                /\ UNCHANGED <<job, idx, queue, failed, completed, attributesToRefresh>>
           ELSE /\ tokens' = tokens
                /\ JobCompleted(w)
    /\ UNCHANGED <<attribute_keys, attributes, token_attributes,
                   resyncKeyJobs, resyncValueJobs>>
    /\ UNCHANGED <<feedVars, aggregateVars>>

\* Mutant of DeleteTokenAttributes: only the links of the payload's keys
\* are deleted.
DeleteTokenAttributesOfPayloadKeys(w) ==
    /\ pc[w] = "deleteTokenAttributes"
    /\ LET removed == {l \in token_attributes :
                          /\ l.token = TokenRef(job[w].data)
                          /\ \E n \in 1..Len(job[w].data.attributes) :
                                job[w].data.attributes[n].key = l.key}
       IN  /\ token_attributes' = token_attributes \ removed
           /\ attributesToRefresh' = [attributesToRefresh EXCEPT ![w] = removed]
    /\ pc' = [pc EXCEPT ![w] = "scheduleRefresh"]
    /\ UNCHANGED <<tokens, attribute_keys, attributes, resyncKeyJobs, resyncValueJobs,
                   queue, failed, completed, job, idx>>
    /\ UNCHANGED <<feedVars, aggregateVars>>

\* DELETE FROM token_attributes WHERE contract, token_id RETURNING key, value.
DeleteTokenAttributes(w) ==
    /\ pc[w] = "deleteTokenAttributes"
    /\ LET removed == {l \in token_attributes : l.token = TokenRef(job[w].data)}
       IN  /\ token_attributes' = token_attributes \ removed
           /\ attributesToRefresh' = [attributesToRefresh EXCEPT ![w] = removed]
    /\ pc' = [pc EXCEPT ![w] = "scheduleRefresh"]
    /\ UNCHANGED <<tokens, attribute_keys, attributes, resyncKeyJobs, resyncValueJobs,
                   queue, failed, completed, job, idx>>
    /\ UNCHANGED <<feedVars, aggregateVars>>

NextAttributePc(w, n) ==
    IF n <= Len(job[w].data.attributes) THEN "updateAttributeKey" ELSE "markIndexed"

\* Mutant of ScheduleAttributeRefresh: only the value recounts are scheduled.
ScheduleAttributeRefreshValuesOnly(w) ==
    /\ pc[w] = "scheduleRefresh"
    /\ resyncKeyJobs' = resyncKeyJobs
    /\ resyncValueJobs' = resyncValueJobs (+)
           BagOfAll(LAMBDA l : <<job[w].data.collection, l.key, l.value>>,
                    SetToBag(attributesToRefresh[w]))
    /\ attributesToRefresh' = [attributesToRefresh EXCEPT ![w] = {}]
    /\ idx' = [idx EXCEPT ![w] = 1]
    /\ pc' = [pc EXCEPT ![w] = NextAttributePc(w, 1)]
    /\ UNCHANGED <<tokens, attribute_keys, attributes, token_attributes,
                   queue, failed, completed, job>>
    /\ UNCHANGED <<feedVars, aggregateVars>>

\* _.forEach(attributesToRefresh, ...): one key recount and one value
\* recount job per removed row, for the payload's collection.
ScheduleAttributeRefresh(w) ==
    /\ pc[w] = "scheduleRefresh"
    /\ resyncKeyJobs' = resyncKeyJobs (+)
           BagOfAll(LAMBDA l : <<job[w].data.collection, l.key>>,
                    SetToBag(attributesToRefresh[w]))
    /\ resyncValueJobs' = resyncValueJobs (+)
           BagOfAll(LAMBDA l : <<job[w].data.collection, l.key, l.value>>,
                    SetToBag(attributesToRefresh[w]))
    /\ attributesToRefresh' = [attributesToRefresh EXCEPT ![w] = {}]
    /\ idx' = [idx EXCEPT ![w] = 1]
    /\ pc' = [pc EXCEPT ![w] = NextAttributePc(w, 1)]
    /\ UNCHANGED <<tokens, attribute_keys, attributes, token_attributes,
                   queue, failed, completed, job>>
    /\ UNCHANGED <<feedVars, aggregateVars>>

\* UPDATE attribute_keys SET info = ... WHERE collection_id, key RETURNING id.
UpdateAttributeKey(w) ==
    /\ pc[w] = "updateAttributeKey"
    /\ LET k == CurrentKeyId(w)
       IN  IF k \in DOMAIN attribute_keys
           THEN /\ attribute_keys' = [attribute_keys EXCEPT ![k].info =
                                         WidenRange(attribute_keys[k], CurrentAttribute(w).value)]
                /\ pc' = [pc EXCEPT ![w] = "selectAttribute"]
           ELSE /\ attribute_keys' = attribute_keys
                /\ pc' = [pc EXCEPT ![w] = "insertAttributeKey"]
    /\ UNCHANGED <<tokens, attributes, token_attributes, resyncKeyJobs, resyncValueJobs,
                   queue, failed, completed, job, idx, attributesToRefresh>>
    /\ UNCHANGED <<feedVars, aggregateVars>>

\* INSERT INTO attribute_keys ... ON CONFLICT DO NOTHING RETURNING id;
\* without an id the job throws.
InsertAttributeKey(w) ==
    /\ pc[w] = "insertAttributeKey"
    /\ LET k == CurrentKeyId(w)
           a == CurrentAttribute(w)
       IN  IF k \notin DOMAIN attribute_keys
           THEN /\ attribute_keys' = [x \in DOMAIN attribute_keys \cup {k} |->
                       IF x = k
                       THEN [kind |-> a.kind, info |-> NewKeyInfo(a.kind, a.value),
                             attribute_count |-> 0]
                       ELSE attribute_keys[x]]
                /\ pc' = [pc EXCEPT ![w] = "selectAttribute"]
                /\ UNCHANGED <<queue, failed, completed, job, idx, attributesToRefresh>>
           ELSE /\ attribute_keys' = attribute_keys
                /\ JobFailed(w)
    /\ UNCHANGED <<tokens, attributes, token_attributes, resyncKeyJobs, resyncValueJobs>>
    /\ UNCHANGED <<feedVars, aggregateVars>>

\* SELECT id FROM attributes WHERE attribute_key_id, value.
SelectAttribute(w) ==
    /\ pc[w] = "selectAttribute"
    /\ pc' = [pc EXCEPT ![w] = IF CurrentAttributeId(w) \in DOMAIN attributes
                               THEN "associateAttribute" ELSE "insertAttribute"]
    /\ UNCHANGED <<tokens, attribute_keys, attributes, token_attributes,
                   resyncKeyJobs, resyncValueJobs, queue, failed, completed,
                   job, idx, attributesToRefresh>>
    /\ UNCHANGED <<feedVars, aggregateVars>>

\* Mutant of AddAttributeCount: the counter is left as it was.
AddAttributeCountNever(attribute_count, inserted) == attribute_count

\* Mutant of AddAttributeCount: the counter is incremented unconditionally.
AddAttributeCountAlways(attribute_count, inserted) == attribute_count + 1

\* attribute_count = attribute_count + (SELECT COUNT(*) FROM x)
AddAttributeCount(attribute_count, inserted) == attribute_count + inserted

\* WITH x AS (INSERT INTO attributes ... ON CONFLICT DO NOTHING RETURNING id)
\* UPDATE attribute_keys SET attribute_count = attribute_count + COUNT(x)
\* RETURNING x.id; without an id the job throws.
InsertAttribute(w) ==
    /\ pc[w] = "insertAttribute"
    /\ LET a == CurrentAttributeId(w)
           k == CurrentKeyId(w)
           exists == a \in DOMAIN attributes
       IN  /\ attributes' = IF exists THEN attributes
                            ELSE [x \in DOMAIN attributes \cup {a} |->
                                     IF x = a THEN [token_count |-> 0, sample_images |-> <<>>]
                                     ELSE attributes[x]]
           /\ attribute_keys' = [attribute_keys EXCEPT ![k].attribute_count =
                                    AddAttributeCount(@, InsertedCount(exists))]
           /\ IF exists
              THEN JobFailed(w)
              ELSE /\ pc' = [pc EXCEPT ![w] = "associateAttribute"]
                   /\ UNCHANGED <<queue, failed, completed, job, idx, attributesToRefresh>>
    /\ UNCHANGED <<tokens, token_attributes, resyncKeyJobs, resyncValueJobs>>
    /\ UNCHANGED <<feedVars, aggregateVars>>

\* Mutant of AddTokenCount: the counter is left as it was.
AddTokenCountNever(token_count, inserted) == token_count

\* Mutant of AddTokenCount: the counter is incremented unconditionally.
AddTokenCountAlways(token_count, inserted) == token_count + 1

\* token_count = token_count + (SELECT COUNT(*) FROM x)
AddTokenCount(token_count, inserted) == token_count + inserted

\* WITH x AS (INSERT INTO token_attributes ... ON CONFLICT DO NOTHING RETURNING 1)
\* UPDATE attributes SET token_count = token_count + COUNT(x) [, sample_images = ...].
AssociateAttribute(w) ==
    /\ pc[w] = "associateAttribute"
    /\ LET data == job[w].data
           a == CurrentAttributeId(w)
           link == [token |-> TokenRef(data), collection |-> data.collection,
                    key |-> CurrentAttribute(w).key, value |-> CurrentAttribute(w).value]
           exists == \E l \in token_attributes :
                        l.token = link.token /\ AttributeId(l.collection, l.key, l.value) = a
       IN  /\ token_attributes' = IF exists THEN token_attributes
                                  ELSE token_attributes \cup {link}
           /\ attributes' = [attributes EXCEPT ![a] =
                  [token_count |-> AddTokenCount(@.token_count, InsertedCount(exists)),
                   sample_images |-> IF data.imageUrl # ""
                                     THEN SampleImageUpdate(@.sample_images, data.imageUrl)
                                     ELSE @.sample_images]]
    /\ idx' = [idx EXCEPT ![w] = @ + 1]
    /\ pc' = [pc EXCEPT ![w] = NextAttributePc(w, idx[w] + 1)]
    /\ UNCHANGED <<tokens, attribute_keys, resyncKeyJobs, resyncValueJobs,
                   queue, failed, completed, job, attributesToRefresh>>
    /\ UNCHANGED <<feedVars, aggregateVars>>

\* Mutant of MarkIndexedRows: the WHERE has no condition on the flag.
MarkIndexedRowsAnyFlag(data) == {t \in DOMAIN tokens : t = TokenRef(data)}

\* Rows matched by WHERE tokens.contract AND tokens.token_id
\* AND tokens.metadata_indexed IS DISTINCT FROM TRUE: the rows the UPDATE writes.
MarkIndexedRows(data) ==
    {t \in DOMAIN tokens : t = TokenRef(data) /\ tokens[t].metadata_indexed # TRUE}

\* UPDATE tokens SET metadata_indexed = TRUE WHERE ... IS DISTINCT FROM TRUE;
\* then the processor returns.
MarkMetadataIndexed(w) ==
    /\ pc[w] = "markIndexed"
    /\ tokens' = [t \in DOMAIN tokens |->
                     IF t \in MarkIndexedRows(job[w].data)
                     THEN [tokens[t] EXCEPT !.metadata_indexed = TRUE]
                     ELSE tokens[t]]
    /\ JobCompleted(w)
    /\ UNCHANGED <<attribute_keys, attributes, token_attributes,
                   resyncKeyJobs, resyncValueJobs>>
    /\ UNCHANGED <<feedVars, aggregateVars>>

WorkerStep(w) ==
    \/ StartJob(w)
    \/ UpdateTokenMetadata(w)
    \/ DeleteTokenAttributes(w)
    \/ ScheduleAttributeRefresh(w)
    \/ UpdateAttributeKey(w)
    \/ InsertAttributeKey(w)
    \/ SelectAttribute(w)
    \/ InsertAttribute(w)
    \/ AssociateAttribute(w)
    \/ MarkMetadataIndexed(w)

----------------------------------------------------------------------------
(* addToQueue of the metadata-index-write-queue *)

MaxBatch == 2           \* longest tokenMetadataInfos array of a call
MaxAppends == 2         \* bid events appended while a client pages
MaxRingJobs == 6        \* jobs that link one attribute one after the other

\* JavaScript truthiness of data[field]: a property that is absent is
\* undefined, a string is truthy unless empty, an array is truthy.
Truthy(data, field) ==
    /\ field \in DOMAIN data
    /\ (field # "attributes" => data[field] # "")

\* Mutant of Dispatchable: the filter does not look at attributes.
DispatchableWithoutAttributes(data) ==
    Truthy(data, "collection") /\ Truthy(data, "contract") /\ Truthy(data, "tokenId")

\* data.collection && data.contract && data.tokenId && data.attributes
Dispatchable(data) ==
    /\ Truthy(data, "collection")
    /\ Truthy(data, "contract")
    /\ Truthy(data, "tokenId")
    /\ Truthy(data, "attributes")

\* addToQueue: queue.addBulk of the mapped and filtered infos.  The call is
\* recorded in lastCall with its argument.
addToQueue(tokenMetadataInfos) ==
    /\ calls < MaxCalls
    /\ LET jobs == SelectSeq([n \in 1..Len(tokenMetadataInfos) |->
                                 NewJob(tokenMetadataInfos[n])],
                             LAMBDA j : Dispatchable(j.data))
       IN  queue' = queue \o jobs
    /\ calls' = calls + 1
    /\ lastCall' = [method |-> "addToQueue", collection |-> "", outcome |-> "returned",
                    x |-> tokenMetadataInfos]
    /\ UNCHANGED <<tokens, attribute_keys, attributes, token_attributes,
                   resyncKeyJobs, resyncValueJobs, failed, completed,
                   pc, job, idx, attributesToRefresh>>
    /\ UNCHANGED <<collections, orders, token_sets, token_sets_tokens,
                   orderUpdatesById, clock>>
    /\ UNCHANGED feedVars

----------------------------------------------------------------------------
(* get-bid-events v1: the handler *)

Addresses == {"0xa", "0xb"}
\* created_at in epoch seconds; the instants straddle a change in the
\* number of digits of the continuation string.
CreatedAts == 9..(8 + MaxCreatedAt)
\* Stand-in for the default endTimestamp 9999999999: later than every
\* created_at of the model.
DefaultEndTimestamp == 9 + MaxCreatedAt

\* A number parameter of the query that the request does not carry
\* (JavaScript undefined).
Undefined == 0 - 2

\* !x of an optional number: true of undefined and of 0.
Not(x) == x = Undefined \/ x = 0

Digit == <<"1", "2", "3", "4", "5", "6", "7", "8", "9">>

\* Number -> string, the JavaScript `+ "_" +` conversion of an integer.
RECURSIVE NumberToString(_)
NumberToString(n) ==
    IF n < 10 THEN <<IF n = 0 THEN "0" ELSE Digit[n]>>
    ELSE NumberToString(n \div 10) \o <<IF n % 10 = 0 THEN "0" ELSE Digit[n % 10]>>

DigitValue(c) == IF c = "0" THEN 0 ELSE CHOOSE d \in 1..9 : Digit[d] = c

\* SQL's reading of a numeral.
RECURSIVE StringToNumber(_)
StringToNumber(str) ==
    IF Len(str) = 0 THEN 0
    ELSE 10 * StringToNumber(SubSeq(str, 1, Len(str) - 1)) + DigitValue(str[Len(str)])

\* buildContinuation / splitContinuation of common/utils: an opaque
\* (base64) wrapping of the string and its inverse, split at "_".
buildContinuation(str) == <<"base64">> \o str
splitContinuation(continuation) ==
    LET str == Tail(continuation)
        at == CHOOSE n \in 1..Len(str) : str[n] = "_"
    IN  <<SubSeq(str, 1, at - 1), SubSeq(str, at + 1, Len(str))>>

\* Joi defaults of validate.query.
ValidatedQuery(q) ==
    [q EXCEPT !.sortDirection = IF @ = "" THEN "desc" ELSE @]

\* (a, b) < (c, d) on rows of SQL values
RowLess(a, b) == a[1] < b[1] \/ (a[1] = b[1] /\ a[2] < b[2])

\* Mutant of CursorCondition: the comparison with the cursor is not strict.
CursorConditionOrEqual(r, sortDirection, createdAt, id) ==
    IF sortDirection = "asc"
    THEN ~RowLess(<<r.created_at, r.id>>, <<createdAt, id>>)
    ELSE ~RowLess(<<createdAt, id>>, <<r.created_at, r.id>>)

\* Mutant of CursorCondition: the cursor compares created_at alone.
CursorConditionCreatedAtOnly(r, sortDirection, createdAt, id) ==
    IF sortDirection = "asc" THEN createdAt < r.created_at ELSE r.created_at < createdAt

\* (bid_events.created_at, bid_events.id) > or < (to_timestamp(createdAt), id)
CursorCondition(r, sortDirection, createdAt, id) ==
    IF sortDirection = "asc"
    THEN RowLess(<<createdAt, id>>, <<r.created_at, r.id>>)
    ELSE RowLess(<<r.created_at, r.id>>, <<createdAt, id>>)

\* The WHERE clause: the two timestamp conditions with their defaults, the
\* contract filter and the continuation's condition.
Conditions(r, q) ==
    LET startTimestamp == IF Not(q.startTimestamp) THEN 0 ELSE q.startTimestamp
        endTimestamp == IF Not(q.endTimestamp) THEN DefaultEndTimestamp ELSE q.endTimestamp
    IN  /\ r.created_at >= startTimestamp
        /\ r.created_at <= endTimestamp
        /\ (q.contract # "" => r.contract = q.contract)
        /\ (q.continuation # <<>> =>
               LET parts == splitContinuation(q.continuation)
               IN  CursorCondition(r, q.sortDirection,
                                   StringToNumber(parts[1]), StringToNumber(parts[2])))

\* ORDER BY bid_events.created_at dir, bid_events.id dir
SortsBefore(r, o, sortDirection) ==
    IF sortDirection = "asc"
    THEN RowLess(<<r.created_at, r.id>>, <<o.created_at, o.id>>)
    ELSE RowLess(<<o.created_at, o.id>>, <<r.created_at, r.id>>)

RECURSIVE OrderBy(_, _)
OrderBy(rows, sortDirection) ==
    IF rows = {} THEN <<>>
    ELSE LET first == CHOOSE r \in rows :
                          \A o \in rows \ {r} : SortsBefore(r, o, sortDirection)
         IN  <<first>> \o OrderBy(rows \ {first}, sortDirection)

\* LIMIT $/limit/
Limit(rows, limit) == SubSeq(rows, 1, IF Len(rows) < limit THEN Len(rows) ELSE limit)

\* Mutant of Continuation: a continuation for every non-empty page.
ContinuationIfAnyRow(rawResult, limit) ==
    IF Len(rawResult) > 0
    THEN buildContinuation(NumberToString(rawResult[Len(rawResult)].created_at)
                           \o <<"_">> \o NumberToString(rawResult[Len(rawResult)].id))
    ELSE <<>>

\* continuation = null unless rawResult.length === query.limit; then the
\* last row's created_at + "_" + id.
Continuation(rawResult, limit) ==
    IF Len(rawResult) = limit
    THEN buildContinuation(NumberToString(rawResult[Len(rawResult)].created_at)
                           \o <<"_">> \o NumberToString(rawResult[Len(rawResult)].id))
    ELSE <<>>

\* The handler: the response to a validated query.
Handler(q) ==
    LET rawResult == Limit(OrderBy({r \in bid_events : Conditions(r, q)}, q.sortDirection),
                           q.limit)
    IN  [events |-> rawResult, continuation |-> Continuation(rawResult, q.limit)]

\* The client requests the next page with the continuation it was given.
GetBidEvents ==
    /\ ~finished
    /\ LET response == Handler(ValidatedQuery([query EXCEPT !.continuation = cursor]))
       IN  /\ pages' = Append(pages, response)
           /\ cursor' = response.continuation
           /\ finished' = (response.continuation = <<>>)
    /\ UNCHANGED <<bid_events, query>>
    /\ UNCHANGED <<indexerVars, aggregateVars>>

\* The writer of bid_events (outside this handler) appends an event between
\* two page requests: its id is past every id of the table (ids past
\* MaxEvents are those of appended events) and its created_at is not before
\* any created_at of the table.
AppendBidEvent ==
    /\ pages # <<>>
    /\ ~finished
    /\ LET id == Max({MaxEvents} \cup {r.id : r \in bid_events}) + 1
       IN  /\ id <= MaxEvents + MaxAppends
           /\ \E created_at \in {c \in CreatedAts : \A r \in bid_events : r.created_at <= c},
                 contract \in Addresses :
                  bid_events' = bid_events \cup
                      {[id |-> id, created_at |-> created_at, contract |-> contract]}
    /\ UNCHANGED <<query, cursor, pages, finished>>
    /\ UNCHANGED <<indexerVars, aggregateVars>>

----------------------------------------------------------------------------
(* Collections: floor recalculation and revalidation *)

ZeroAddress == "0x0000000000000000000000000000000000000000"

\* a IS DISTINCT FROM b (NULL is a value of the model)
IsDistinctFrom(a, b) == a # b

\* ORDER BY on a numeric column, ascending: NULL sorts last.
NotAfter(a, b) == b = NullNumber \/ (a # NullNumber /\ a <= b)

\* Rows of the subquery x before its ORDER BY ... LIMIT 1: the collection's
\* tokens joined with the order of their cached floor.
FloorSellRows(collection) ==
    {[floor_sell_id |-> tokens[t].floor_sell_id,
      floor_sell_value |-> tokens[t].floor_sell_value,
      floor_sell_maker |-> tokens[t].floor_sell_maker,
      source_id_int |-> orders[tokens[t].floor_sell_id].source_id_int,
      valid_between |-> orders[tokens[t].floor_sell_id].valid_between] :
        t \in {u \in DOMAIN tokens : /\ tokens[u].collection_id = collection
                                     /\ tokens[u].floor_sell_id \in DOMAIN orders}}

\* ORDER BY tokens.floor_sell_value LIMIT 1: any row of least value.
FirstByFloorSellValue(rows) ==
    {x \in rows : \A y \in rows : NotAfter(x.floor_sell_value, y.floor_sell_value)}

\* Mutant of FloorSellChanged: the UPDATE has no condition on the stored floor.
FloorSellAlwaysWritten(row, x) == TRUE

\* collections.floor_sell_id IS DISTINCT FROM x.floor_sell_id
\* OR collections.floor_sell_value IS DISTINCT FROM x.floor_sell_value
FloorSellChanged(row, x) ==
    \/ IsDistinctFrom(row.floor_sell_id, x.floor_sell_id)
    \/ IsDistinctFrom(row.floor_sell_value, x.floor_sell_value)

Called(method, collection, outcome, x) ==
    /\ calls < MaxCalls
    /\ calls' = calls + 1
    /\ lastCall' = [method |-> method, collection |-> collection, outcome |-> outcome, x |-> x]

\* Mutant of recalculateCollectionFloorSell: without a row of x the stored
\* floor is cleared.
recalculateCollectionFloorSellOrClear(collection) ==
    /\ LET rows == FloorSellRows(collection)
       IN  IF rows = {}
           THEN /\ collections' =
                     IF collection \in DOMAIN collections
                     THEN [collections EXCEPT ![collection] =
                              [floor_sell_id |-> NULL,
                               floor_sell_value |-> NullNumber,
                               floor_sell_maker |-> NULL,
                               floor_sell_source_id_int |-> NullNumber,
                               floor_sell_valid_between |-> <<>>,
                               updated_at |-> clock]]
                     ELSE collections
                /\ Called("recalculateCollectionFloorSell", collection, "returned", <<>>)
           ELSE \E x \in FirstByFloorSellValue(rows) :
                /\ collections' =
                     IF collection \in DOMAIN collections
                        /\ FloorSellChanged(collections[collection], x)
                     THEN [collections EXCEPT ![collection] =
                              [floor_sell_id |-> x.floor_sell_id,
                               floor_sell_value |-> x.floor_sell_value,
                               floor_sell_maker |-> x.floor_sell_maker,
                               floor_sell_source_id_int |-> x.source_id_int,
                               floor_sell_valid_between |-> x.valid_between,
                               updated_at |-> clock]]
                     ELSE collections
                /\ Called("recalculateCollectionFloorSell", collection, "returned", <<x>>)
    /\ UNCHANGED <<orders, token_sets, token_sets_tokens, orderUpdatesById, clock>>
    /\ UNCHANGED <<indexerVars, feedVars>>

\* Collections.recalculateCollectionFloorSell: one UPDATE ... FROM (x) WHERE.
recalculateCollectionFloorSell(collection) ==
    /\ LET rows == FloorSellRows(collection)
       IN  IF rows = {}
           THEN /\ collections' = collections
                /\ Called("recalculateCollectionFloorSell", collection, "returned", <<>>)
           ELSE \E x \in FirstByFloorSellValue(rows) :
                /\ collections' =
                     IF collection \in DOMAIN collections
                        /\ FloorSellChanged(collections[collection], x)
                     THEN [collections EXCEPT ![collection] =
                              [floor_sell_id |-> x.floor_sell_id,
                               floor_sell_value |-> x.floor_sell_value,
                               floor_sell_maker |-> x.floor_sell_maker,
                               floor_sell_source_id_int |-> x.source_id_int,
                               floor_sell_valid_between |-> x.valid_between,
                               updated_at |-> clock]]
                     ELSE collections
                /\ Called("recalculateCollectionFloorSell", collection, "returned", <<x>>)
    /\ UNCHANGED <<orders, token_sets, token_sets_tokens, orderUpdatesById, clock>>
    /\ UNCHANGED <<indexerVars, feedVars>>

\* orders.taker = '\\x0000000000000000000000000000000000000000' OR orders.taker IS NULL
OpenTaker(order) == order.taker = ZeroAddress \/ order.taker = NULL

\* The status conditions shared by the two revalidation queries.
Revalidatable(order, side) ==
    /\ order.side = side
    /\ order.fillability_status = "fillable"
    /\ order.approval_status = "approved"
    /\ OpenTaker(order)

\* Mutant of FloorAskOrders: the fillability condition is missing.
FloorAskOrdersAnyFillability(collection) ==
    {o \in DOMAIN orders :
        /\ \E m \in token_sets_tokens :
              /\ m.token_set_id = orders[o].token_set_id
              /\ <<m.contract, m.token_id>> \in DOMAIN tokens
              /\ tokens[<<m.contract, m.token_id>>].collection_id = collection
        /\ orders[o].side = "sell"
        /\ orders[o].approval_status = "approved"
        /\ OpenTaker(orders[o])}

\* orders JOIN token_sets_tokens JOIN tokens WHERE tokens.collection_id
FloorAskOrders(collection) ==
    {o \in DOMAIN orders :
        /\ \E m \in token_sets_tokens :
              /\ m.token_set_id = orders[o].token_set_id
              /\ <<m.contract, m.token_id>> \in DOMAIN tokens
              /\ tokens[<<m.contract, m.token_id>>].collection_id = collection
        /\ Revalidatable(orders[o], "sell")}

\* Mutant of AskSortsFirst: ORDER BY orders.value alone.
AskSortsFirstByValue(a, b) == a.value <= b.value

\* ORDER BY orders.value, orders.fee_bps
AskSortsFirst(a, b) == a.value < b.value \/ (a.value = b.value /\ a.fee_bps <= b.fee_bps)

\* orders JOIN token_sets WHERE token_sets.collection_id AND attribute_id IS NULL
TopBuyOrders(collection) ==
    {o \in DOMAIN orders :
        /\ orders[o].token_set_id \in DOMAIN token_sets
        /\ token_sets[orders[o].token_set_id].collection_id = collection
        /\ token_sets[orders[o].token_set_id].attribute_id = NULL
        /\ Revalidatable(orders[o], "buy")}

\* ORDER BY orders.value DESC
BuySortsFirst(a, b) == a.value >= b.value

RevalidationJob(prefix, id) ==
    [context |-> <<prefix, id, clock>>, id |-> id, trigger |-> [kind |-> "revalidation"]]

\* Collections.revalidateCollectionFloorAsk: oneOrNone gives null when
\* there is no row, and reading `.id` of null throws a TypeError.
revalidateCollectionFloorAsk(collection) ==
    /\ LET found == FloorAskOrders(collection)
       IN  IF found = {}
           THEN /\ orderUpdatesById' = orderUpdatesById
                /\ Called("revalidateCollectionFloorAsk", collection, "threw", <<>>)
           ELSE \E o \in {a \in found : \A b \in found : AskSortsFirst(orders[a], orders[b])} :
                /\ orderUpdatesById' =
                     Append(orderUpdatesById,
                            RevalidationJob("revalidate-collection-floor-sell", o))
                /\ Called("revalidateCollectionFloorAsk", collection, "returned", <<o>>)
    /\ UNCHANGED <<collections, orders, token_sets, token_sets_tokens, clock>>
    /\ UNCHANGED <<indexerVars, feedVars>>

\* Collections.revalidateCollectionTopBuy: as above for the best buy order.
revalidateCollectionTopBuy(collection) ==
    /\ LET found == TopBuyOrders(collection)
       IN  IF found = {}
           THEN /\ orderUpdatesById' = orderUpdatesById
                /\ Called("revalidateCollectionTopBuy", collection, "threw", <<>>)
           ELSE \E o \in {a \in found : \A b \in found : BuySortsFirst(orders[a], orders[b])} :
                /\ orderUpdatesById' =
                     Append(orderUpdatesById,
                            RevalidationJob("revalidate-collection-top-buy", o))
                /\ Called("revalidateCollectionTopBuy", collection, "returned", <<o>>)
    /\ UNCHANGED <<collections, orders, token_sets, token_sets_tokens, clock>>
    /\ UNCHANGED <<indexerVars, feedVars>>

\* Time passes.
Tick ==
    /\ clock < MaxClock
    /\ clock' = clock + 1
    /\ UNCHANGED <<collections, orders, token_sets, token_sets_tokens,
                   orderUpdatesById, calls, lastCall>>
    /\ UNCHANGED <<indexerVars, feedVars>>

\* LIMIT 10000 of the contract-scope queries.
ContractTokensLimit == 10000

Contracts == {"0xc", "0xd"}

\* Mutant of ContractTokenIds: the query has no WHERE on the contract.
AnyContractTokenIds(contract) == {t[2] : t \in DOMAIN tokens}

\* SELECT tokens.token_id FROM tokens WHERE tokens.contract = $/contract/
ContractTokenIds(contract) == {t[2] : t \in {u \in DOMAIN tokens : u[1] = contract}}

\* ... LIMIT 10000, with no ORDER BY: any enumeration of any limit-sized part.
LimitedRows(ids, limit) ==
    LET n == IF Cardinality(ids) < limit THEN Cardinality(ids) ELSE limit
    IN  {rows \in [1..n -> ids] : \A i, j \in 1..n : rows[i] = rows[j] => i = j}

\* One job of a contract-scope pass: `token:${contract}:${token_id}` and
\* `revalidate-${side}-${tokenSetId}-${currentTime}`.
ContractRevalidationJob(contract, token_id, side, currentTime) ==
    LET tokenSetId == <<"token", contract, token_id>>
    IN  [context |-> <<"revalidate", side, tokenSetId, currentTime>>,
         tokenSetId |-> tokenSetId, side |-> side, trigger |-> [kind |-> "revalidation"]]

\* result.map(({ token_id }) => ...) with the one currentTime of the pass.
ContractRevalidationJobs(contract, result, side, currentTime) ==
    [n \in 1..Len(result) |-> ContractRevalidationJob(contract, result[n], side, currentTime)]

\* Collections.recalculateContractFloorSell: the SELECT, one now(), one
\* addToQueue of the mapped rows.
recalculateContractFloorSell(contract) ==
    /\ \E result \in LimitedRows(ContractTokenIds(contract), ContractTokensLimit) :
          orderUpdatesById' = orderUpdatesById \o
              ContractRevalidationJobs(contract, result, "sell", clock)
    /\ Called("recalculateContractFloorSell", contract, "returned", <<>>)
    /\ UNCHANGED <<collections, orders, token_sets, token_sets_tokens, clock>>
    /\ UNCHANGED <<indexerVars, feedVars>>

\* Collections.recalculateContractTopBuy: the same for side buy.
recalculateContractTopBuy(contract) ==
    /\ \E result \in LimitedRows(ContractTokenIds(contract), ContractTokensLimit) :
          orderUpdatesById' = orderUpdatesById \o
              ContractRevalidationJobs(contract, result, "buy", clock)
    /\ Called("recalculateContractTopBuy", contract, "returned", <<>>)
    /\ UNCHANGED <<collections, orders, token_sets, token_sets_tokens, clock>>
    /\ UNCHANGED <<indexerVars, feedVars>>

----------------------------------------------------------------------------
(* Specifications of the indexer *)

PayloadsOf(tokenIds, images) ==
    {TokenMetadataInfo(Collection, Contract, t, img, attrs) :
        t \in tokenIds, img \in images, attrs \in SeqsUpTo(AttributePool, MaxAttributes)}

EmptyTables ==
    /\ tokens = [t \in {<<Contract, id>> : id \in TokenIds} |->
                    [image |-> "", attributes |-> {}, metadata_indexed |-> FALSE,
                     collection_id |-> Collection, floor_sell_id |-> NULL,
                     floor_sell_value |-> NullNumber, floor_sell_maker |-> NULL]]
    /\ attribute_keys = <<>>
    /\ attributes = <<>>
    /\ token_attributes = {}
    /\ resyncKeyJobs = EmptyBag
    /\ resyncValueJobs = EmptyBag

IdleWorkers(active) ==
    /\ pc = [w \in Workers |-> IF w \in active THEN "idle" ELSE "off"]
    /\ job = [w \in Workers |-> NoJob]
    /\ idx = [w \in Workers |-> 0]
    /\ attributesToRefresh = [w \in Workers |-> {}]
    /\ failed = {}
    /\ completed = <<>>

NoFeed ==
    /\ bid_events = {}
    /\ query = [contract |-> "", startTimestamp |-> 0, endTimestamp |-> 0,
                sortDirection |-> "", limit |-> 1, continuation |-> <<>>]
    /\ cursor = <<>>
    /\ pages = <<>>
    /\ finished = TRUE

NoCall == [method |-> "", collection |-> "", outcome |-> "", x |-> <<>>]

NoAggregates ==
    /\ collections = <<>>
    /\ orders = <<>>
    /\ token_sets = <<>>
    /\ token_sets_tokens = {}
    /\ orderUpdatesById = <<>>
    /\ clock = 0
    /\ calls = 0
    /\ lastCall = NoCall

NoIndexer ==
    /\ EmptyTables
    /\ IdleWorkers({})
    /\ queue = <<>>

\* Two jobs delivered to two concurrent workers.  Token and image names are
\* interchangeable, so the first job is for t1 with image "a"; the second
\* is for the same or the other token, with no, the same or another image.
Init ==
    /\ EmptyTables
    /\ IdleWorkers(Workers)
    /\ \E p1 \in PayloadsOf({"t1"}, {"a"}), p2 \in PayloadsOf(TokenIds, Images) :
           queue = <<NewJob(p1), NewJob(p2)>>
    /\ NoFeed
    /\ NoAggregates

Next == \E w \in Workers : WorkerStep(w)

Spec == Init /\ [][Next]_vars

\* One worker processes three jobs one after the other: an earlier job, then
\* the same payload twice.
InitReplay ==
    /\ EmptyTables
    /\ IdleWorkers({"w1"})
    /\ \E p0 \in PayloadsOf(TokenIds, Images), p \in PayloadsOf({"t1"}, {"", "a"}) :
           queue = <<NewJob(p0), NewJob(p), NewJob(p)>>
    /\ NoFeed
    /\ NoAggregates

SpecReplay == InitReplay /\ [][Next]_vars

\* The feed: a fixed bid_events table, one client with a fixed query that
\* follows the continuations from the start.
BidEventTables ==
    {[id \in ids |-> [id |-> id, created_at |-> created[id], contract |-> contracts[id]]] :
        ids \in {1..n : n \in 0..MaxEvents},
        created \in [1..MaxEvents -> CreatedAts],
        contracts \in [1..MaxEvents -> Addresses]}

Queries ==
    [contract : {"", "0xa"},
     startTimestamp : {Undefined, 10},
     endTimestamp : {Undefined, 9},
     sortDirection : {"", "asc", "desc"},
     limit : 1..MaxLimit,
     continuation : {<<>>}]

InitFeed ==
    /\ NoIndexer
    /\ \E table \in BidEventTables : bid_events = {table[id] : id \in DOMAIN table}
    /\ query \in Queries
    /\ cursor = <<>>
    /\ pages = <<>>
    /\ finished = FALSE
    /\ NoAggregates

\* Requests whose bounds are left out, 0 or an instant of the events.
FilterQueries ==
    [contract : {"", "0xa"},
     startTimestamp : {Undefined, 0, 10},
     endTimestamp : {Undefined, 0, 9},
     sortDirection : {"", "asc", "desc"},
     limit : 1..MaxLimit,
     continuation : {<<>>}]

InitFilters ==
    /\ NoIndexer
    /\ \E table \in BidEventTables : bid_events = {table[id] : id \in DOMAIN table}
    /\ query \in FilterQueries
    /\ cursor = <<>>
    /\ pages = <<>>
    /\ finished = FALSE
    /\ NoAggregates

NextFeed == GetBidEvents

SpecFilters == InitFilters /\ [][NextFeed]_vars

NextAppend ==
    \/ GetBidEvents
    \/ AppendBidEvent

SpecAppend == InitFeed /\ [][NextAppend]_vars

SpecFeed == InitFeed /\ [][NextFeed]_vars

\* The floor cache: tokens t1 and t2 of collection c1 with any cached floor
\* (none, an order, an order that is gone), collection c2 without tokens,
\* and any stored collection floor.
OrderRow(side, value, fee_bps, status, token_set_id, source_id_int, valid_between) ==
    [side |-> side, value |-> value, fee_bps |-> fee_bps,
     fillability_status |-> status[1], approval_status |-> status[2], taker |-> status[3],
     token_set_id |-> token_set_id, source_id_int |-> source_id_int,
     valid_between |-> valid_between]

TokenFloors ==
    {[floor_sell_id |-> NULL, floor_sell_value |-> NullNumber]}
    \cup [floor_sell_id : {"o1", "o2", "gone"}, floor_sell_value : 1..MaxPrice]

StoredFloors ==
    [floor_sell_id : {NULL, "o1", "o2"}, floor_sell_value : {NullNumber} \cup 1..MaxPrice]

CollectionRow(floor) ==
    [floor_sell_id |-> floor.floor_sell_id, floor_sell_value |-> floor.floor_sell_value,
     floor_sell_maker |-> NULL, floor_sell_source_id_int |-> NullNumber,
     floor_sell_valid_between |-> <<>>, updated_at |-> 0]

TokenRow(collection, floor, maker) ==
    [image |-> "", attributes |-> {}, metadata_indexed |-> FALSE,
     collection_id |-> collection, floor_sell_id |-> floor.floor_sell_id,
     floor_sell_value |-> floor.floor_sell_value,
     floor_sell_maker |-> IF floor.floor_sell_id = NULL THEN NULL ELSE maker]

TokenSets ==
    /\ token_sets = [ts \in {"token:0xc:t1", "contract:0xc", "attribute:a1", "contract:0xd"} |->
           [collection_id |-> IF ts = "contract:0xd" THEN "c2"
                              ELSE IF ts = "token:0xc:t1" THEN NULL ELSE "c1",
            attribute_id |-> IF ts = "attribute:a1" THEN "a1" ELSE NULL]]
    /\ token_sets_tokens =
           {[token_set_id |-> "token:0xc:t1", contract |-> Contract, token_id |-> "t1"],
            [token_set_id |-> "contract:0xc", contract |-> Contract, token_id |-> "t1"],
            [token_set_id |-> "contract:0xc", contract |-> Contract, token_id |-> "t2"],
            [token_set_id |-> "attribute:a1", contract |-> Contract, token_id |-> "t1"]}

IndexerAtRest ==
    /\ attribute_keys = <<>>
    /\ attributes = <<>>
    /\ token_attributes = {}
    /\ resyncKeyJobs = EmptyBag
    /\ resyncValueJobs = EmptyBag
    /\ IdleWorkers({})
    /\ queue = <<>>

InitFloor ==
    /\ IndexerAtRest
    /\ NoFeed
    /\ \E f1 \in TokenFloors, f2 \in TokenFloors :
           tokens = (<<Contract, "t1">> :> TokenRow("c1", f1, "0xm1"))
                    @@ (<<Contract, "t2">> :> TokenRow("c1", f2, "0xm2"))
    /\ orders = ("o1" :> OrderRow("sell", 1, 0, <<"fillable", "approved", NULL>>,
                                  "token:0xc:t1", 1, <<1, 5>>))
                @@ ("o2" :> OrderRow("sell", MaxPrice, 0, <<"fillable", "approved", NULL>>,
                                     "contract:0xc", 2, <<2, 6>>))
    /\ TokenSets
    /\ \E s1 \in StoredFloors, s2 \in {CollectionRow([floor_sell_id |-> NULL, floor_sell_value |-> NullNumber]), CollectionRow([floor_sell_id |-> "o1", floor_sell_value |-> 1])} :
           collections = ("c1" :> CollectionRow(s1)) @@ ("c2" :> s2)
    /\ orderUpdatesById = <<>>
    /\ clock = 1
    /\ calls = 0
    /\ lastCall = NoCall

NextFloor ==
    \/ \E c \in CollectionIds : recalculateCollectionFloorSell(c)
    \/ Tick

SpecFloor == InitFloor /\ [][NextFloor]_vars

\* Revalidation: two orders of any side, value, fee, status and token set.
OrderStatuses ==
    {<<"fillable", "approved", NULL>>, <<"fillable", "approved", ZeroAddress>>,
     <<"fillable", "approved", "0xtaker">>, <<"no-balance", "approved", NULL>>,
     <<"fillable", "no-approval", NULL>>}

OrderRows ==
    {OrderRow(side, value, fee_bps, status, ts, 1, <<1, 5>>) :
        side \in {"sell", "buy"}, value \in 1..MaxPrice, fee_bps \in {0, 250},
        status \in OrderStatuses,
        ts \in {"token:0xc:t1", "contract:0xc", "attribute:a1", "contract:0xd"}}

InitRevalidate ==
    /\ IndexerAtRest
    /\ NoFeed
    /\ tokens = (<<Contract, "t1">> :> TokenRow("c1", [floor_sell_id |-> NULL, floor_sell_value |-> NullNumber], NULL))
                @@ (<<Contract, "t2">> :> TokenRow("c1", [floor_sell_id |-> NULL, floor_sell_value |-> NullNumber], NULL))
    /\ \E r1 \in OrderRows, r2 \in OrderRows : orders = ("o1" :> r1) @@ ("o2" :> r2)
    /\ TokenSets
    /\ collections = [c \in CollectionIds |->
                         CollectionRow([floor_sell_id |-> NULL, floor_sell_value |-> NullNumber])]
    /\ orderUpdatesById = <<>>
    /\ clock = 1
    /\ calls = 0
    /\ lastCall = NoCall

NextRevalidate ==
    \/ \E c \in CollectionIds : revalidateCollectionFloorAsk(c)
    \/ \E c \in CollectionIds : revalidateCollectionTopBuy(c)

SpecRevalidate == InitRevalidate /\ [][NextRevalidate]_vars

\* A job for a token that has no row: only t1 is in the tokens table, the
\* first job is for t2 and runs next to a job for either token.
NoFloor == [floor_sell_id |-> NULL, floor_sell_value |-> NullNumber]

InitMissing ==
    /\ tokens = (<<Contract, "t1">> :> TokenRow(Collection, NoFloor, NULL))
    /\ attribute_keys = <<>>
    /\ attributes = <<>>
    /\ token_attributes = {}
    /\ resyncKeyJobs = EmptyBag
    /\ resyncValueJobs = EmptyBag
    /\ IdleWorkers(Workers)
    /\ \E p1 \in PayloadsOf({"t2"}, {"a"}), p2 \in PayloadsOf(TokenIds, Images) :
           queue = <<NewJob(p1), NewJob(p2)>>
    /\ NoFeed
    /\ NoAggregates

SpecMissing == InitMissing /\ [][Next]_vars

\* Contract-scope passes: any of three tokens of two contracts exist.
InitContract ==
    /\ \E present \in SUBSET {<<"0xc", "t1">>, <<"0xc", "t2">>, <<"0xd", "t1">>} :
           tokens = [t \in present |-> TokenRow(Collection, NoFloor, NULL)]
    /\ attribute_keys = <<>>
    /\ attributes = <<>>
    /\ token_attributes = {}
    /\ resyncKeyJobs = EmptyBag
    /\ resyncValueJobs = EmptyBag
    /\ IdleWorkers({})
    /\ queue = <<>>
    /\ NoFeed
    /\ collections = [c \in CollectionIds |-> CollectionRow(NoFloor)]
    /\ orders = <<>>
    /\ TokenSets
    /\ orderUpdatesById = <<>>
    /\ clock = 1
    /\ calls = 0
    /\ lastCall = NoCall

NextContract ==
    \/ \E contract \in Contracts : recalculateContractFloorSell(contract)
    \/ \E contract \in Contracts : recalculateContractTopBuy(contract)
    \/ Tick

SpecContract == InitContract /\ [][NextContract]_vars

\* Calls of addToQueue with complete infos, infos that lack one of the four
\* fields or have it empty, and an info that lacks all four.
RequiredFields == {"collection", "contract", "tokenId", "attributes"}

CompleteInfos ==
    {TokenMetadataInfo(Collection, Contract, "t1", "a", attrs) :
        attrs \in {<<>>, <<Attribute("k1", 1)>>}}

InfoPool ==
    CompleteInfos
    \cup {[g \in DOMAIN info \ {f} |-> info[g]] : info \in CompleteInfos, f \in RequiredFields}
    \cup {[info EXCEPT ![f] = ""] : info \in CompleteInfos, f \in RequiredFields \ {"attributes"}}
    \cup {[imageUrl |-> "a"]}

InitEnqueue ==
    /\ NoIndexer
    /\ NoFeed
    /\ NoAggregates

NextEnqueue == \E tokenMetadataInfos \in SeqsUpTo(InfoPool, MaxBatch) : addToQueue(tokenMetadataInfos)

SpecEnqueue == InitEnqueue /\ [][NextEnqueue]_vars

\* One worker processes MaxRingJobs jobs that carry the same attribute, for
\* t1 and t2 in turn, each with no image or one of five.  Image names are
\* interchangeable, so a name is used only after the names before it.
RingImages == <<"a", "b", "c", "d", "e">>

InNameOrder(images) ==
    \A n \in 1..Len(images) :
        \/ images[n] = ""
        \/ \E i \in 1..Len(RingImages) :
              /\ images[n] = RingImages[i]
              /\ \A j \in 1..(i - 1) : \E k \in 1..(n - 1) : images[k] = RingImages[j]

InitRing ==
    /\ EmptyTables
    /\ IdleWorkers({"w1"})
    /\ \E images \in [1..MaxRingJobs -> {""} \cup {RingImages[i] : i \in 1..Len(RingImages)}] :
          /\ InNameOrder(images)
          /\ queue = [n \in 1..MaxRingJobs |->
                         NewJob(TokenMetadataInfo(Collection, Contract,
                                                  IF n % 2 = 1 THEN "t1" ELSE "t2",
                                                  images[n], <<Attribute("k2", 1)>>))]
    /\ NoFeed
    /\ NoAggregates

\* Images of the jobs both workers process at once: the images in turn
\* (more distinct images than the array holds), or each image twice.
SampleJobImages ==
    {[n \in 1..MaxRingJobs |-> RingImages[((n - 1) % Len(RingImages)) + 1]],
     [n \in 1..MaxRingJobs |-> RingImages[(((n + 1) \div 2 - 1) % Len(RingImages)) + 1]]}

InitSamples ==
    /\ EmptyTables
    /\ IdleWorkers(Workers)
    /\ \E images \in SampleJobImages :
          /\ queue = [n \in 1..MaxRingJobs |->
                         NewJob(TokenMetadataInfo(Collection, Contract,
                                                  IF n % 2 = 1 THEN "t1" ELSE "t2",
                                                  images[n], <<Attribute("k2", 1)>>))]
    /\ NoFeed
    /\ NoAggregates

SpecSamples == InitSamples /\ [][Next]_vars

SpecRing == InitRing /\ [][Next]_vars

----------------------------------------------------------------------------
(* Vocabulary of the claims *)

AttributeIdOfLink(l) == AttributeId(l.collection, l.key, l.value)
LinksTo(a) == {l \in token_attributes : AttributeIdOfLink(l) = a}
PairsOf(data) ==
    {AttributeId(data.collection, data.attributes[n].key, data.attributes[n].value) :
        n \in 1..Len(data.attributes)}
AllDone == queue = <<>> /\ failed = {} /\ \A w \in Workers : pc[w] \in {"idle", "off"}

\* Rows of a worker's DELETE result that the schedule step has yet to turn
\* into recount jobs.
PendingRefresh(a) ==
    {<<w, l>> \in UNION {{w} \X attributesToRefresh[w] : w \in Workers} : AttributeIdOfLink(l) = a}

----------------------------------------------------------------------------
(* C1: idempotence of the indexing job *)

\* C1 as claimed: when a job has run to completion twice in a row, the
\* attribute_keys, attributes and token_attributes tables are the same as
\* after its first run.
C1_Idempotence ==
    Len(completed) = 3 => completed[3].tables = completed[2].tables

\* C1 amended: the second run leaves the same attribute_keys rows, the same
\* links and the same attributes rows with the same sample_images, but the
\* token_count of every attribute of the payload is one higher: the DELETE
\* does not decrement it and the re-insert increments it.
C1_IdempotentUpToTokenCount ==
    Len(completed) = 3 =>
        LET once == completed[2].tables
            twice == completed[3].tables
            data == completed[3].data
        IN  /\ twice.keys = once.keys
            /\ twice.links = once.links
            /\ DOMAIN twice.attrs = DOMAIN once.attrs
            /\ \A a \in DOMAIN once.attrs :
                  /\ twice.attrs[a].sample_images = once.attrs[a].sample_images
                  /\ twice.attrs[a].token_count =
                        once.attrs[a].token_count + (IF a \in PairsOf(data) THEN 1 ELSE 0)

C1_Witness ==
    /\ Len(completed) = 3
    /\ completed[3].data.imageUrl # ""
    /\ Len(completed[3].data.attributes) = MaxAttributes
    /\ completed[1].data.imageUrl \notin {"", completed[3].data.imageUrl}
    /\ PairsOf(completed[1].data) \cap PairsOf(completed[3].data) # {}

----------------------------------------------------------------------------
(* C2: token_count against the links *)

\* C2 as claimed: in every state each attribute's token_count is the number
\* of token_attributes rows that reference it.
C2_TokenCountIsLinkCount ==
    \A a \in DOMAIN attributes : attributes[a].token_count = Cardinality(LinksTo(a))

\* C2 amended: in every state each attribute's token_count is the number of
\* token_attributes rows that reference it plus the number of its rows that
\* DELETE statements have removed (each of them has a value-recount job
\* scheduled, or is about to).
C2_TokenCountIsLinksPlusRemoved ==
    \A a \in DOMAIN attributes :
        attributes[a].token_count =
            Cardinality(LinksTo(a)) + CopiesIn(a, resyncValueJobs) + Cardinality(PendingRefresh(a))

C2_Witness ==
    \E a \in DOMAIN attributes :
        /\ CopiesIn(a, resyncValueJobs) > 0
        /\ Cardinality(LinksTo(a)) > 0
        /\ Cardinality(PendingRefresh(a)) > 0

----------------------------------------------------------------------------
(* C3: concurrent first sighting of one (collection, key, value) *)

BothCompleted == AllDone /\ Len(completed) = 2
DistinctTokens == completed[1].data.tokenId # completed[2].data.tokenId
ValuesSeen(k) ==
    {a[3] : a \in {b \in PairsOf(completed[1].data) \cup PairsOf(completed[2].data) :
                      KeyId(b[1], b[2]) = k}}

\* C3: when two jobs for distinct tokens that both carry a pair never seen
\* before have completed (after any interleaving and any retries), the pair
\* has its attributes row and the key's attribute_count is the number of
\* distinct values the jobs carried for the key: the pair counted once.
C3_CounterRaceSafety ==
    (BothCompleted /\ DistinctTokens) =>
        \A a \in PairsOf(completed[1].data) \cap PairsOf(completed[2].data) :
            /\ a \in DOMAIN attributes
            /\ KeyId(a[1], a[2]) \in DOMAIN attribute_keys
            /\ attribute_keys[KeyId(a[1], a[2])].attribute_count =
                  Cardinality(ValuesSeen(KeyId(a[1], a[2])))

C3_Witness ==
    /\ BothCompleted /\ DistinctTokens
    /\ PairsOf(completed[1].data) \cap PairsOf(completed[2].data) # {}
    /\ \E n \in 1..2 : completed[n].attemptsMade > 0

----------------------------------------------------------------------------
(* C4: numeric range *)

\* C4, final range: when every job has completed, a number key's range is
\* [min, max] of the values the jobs carried for it.
C4_FinalRange ==
    BothCompleted =>
        \A k \in DOMAIN attribute_keys :
            attribute_keys[k].kind = "number" =>
                attribute_keys[k].info = <<Min(ValuesSeen(k)), Max(ValuesSeen(k))>>

\* C4, every step: min_range never increases and max_range never decreases.
C4_RangeOnlyWidens ==
    \A k \in DOMAIN attribute_keys :
        attribute_keys[k].kind = "number" =>
            /\ k \in DOMAIN attribute_keys'
            /\ attribute_keys'[k].info[1] <= attribute_keys[k].info[1]
            /\ attribute_keys'[k].info[2] >= attribute_keys[k].info[2]

\* C4: range monotonicity: the final range of a number key is [min, max] of
\* the observed values and no step narrows the range.
C4_RangeMonotonicity == [](C4_FinalRange) /\ [][C4_RangeOnlyWidens]_vars

C4_Witness ==
    /\ BothCompleted
    /\ \E n \in 1..2 : completed[n].attemptsMade > 0
    /\ \E k \in DOMAIN attribute_keys :
          /\ attribute_keys[k].kind = "number"
          /\ attribute_keys[k].info = <<1, MaxValue>>

----------------------------------------------------------------------------
(* C7: replay after a failure *)

ImagesSeen(a) ==
    {completed[n].data.imageUrl : n \in {m \in 1..2 : a \in PairsOf(completed[m].data)}} \ {""}
TokensCarrying(a) == {n \in 1..2 : a \in PairsOf(completed[n].data)}
ExpectedLinks ==
    UNION {{[token |-> TokenRef(completed[n].data), collection |-> a[1], key |-> a[2],
             value |-> a[3]] : a \in PairsOf(completed[n].data)} : n \in 1..2}
Range(seq) == {seq[n] : n \in 1..Len(seq)}

\* What replays leave like a first-attempt success: keys, rows, links, images.
ConvergedExceptTokenCount ==
    /\ token_attributes = ExpectedLinks
    /\ DOMAIN attributes = PairsOf(completed[1].data) \cup PairsOf(completed[2].data)
    /\ DOMAIN attribute_keys = {KeyId(a[1], a[2]) : a \in DOMAIN attributes}
    /\ \A k \in DOMAIN attribute_keys :
          /\ attribute_keys[k].attribute_count = Cardinality(ValuesSeen(k))
          /\ attribute_keys[k].kind = KindOf(k[2])
          /\ attribute_keys[k].info = IF KindOf(k[2]) = "number"
                                        THEN <<Min(ValuesSeen(k)), Max(ValuesSeen(k))>>
                                        ELSE <<>>
    /\ \A a \in DOMAIN attributes :
          /\ Range(attributes[a].sample_images) = ImagesSeen(a)
          /\ Len(attributes[a].sample_images) = Cardinality(ImagesSeen(a))

Retried == \E n \in 1..2 : completed[n].attemptsMade > 0

\* C7 as claimed: when the jobs of two distinct tokens have completed and one
\* of them was replayed after a failure, the tables and counters are those
\* of first-attempt successes: in particular every token_count is the
\* number of tokens carrying the attribute.
C7_RetryConvergence ==
    (BothCompleted /\ DistinctTokens /\ Retried) =>
        /\ ConvergedExceptTokenCount
        /\ \A a \in DOMAIN attributes :
              attributes[a].token_count = Cardinality(TokensCarrying(a))

\* C7 amended: after the replays the keys, their counts and ranges, the
\* attributes rows, their sample images and the links are those of
\* first-attempt successes, and each token_count exceeds the number of tokens
\* carrying the attribute by the number of links of failed attempts that
\* the replays deleted (one value-recount job each).
C7_RetryConvergenceUpToTokenCount ==
    (BothCompleted /\ DistinctTokens /\ Retried) =>
        /\ ConvergedExceptTokenCount
        /\ \A a \in DOMAIN attributes :
              attributes[a].token_count =
                  Cardinality(TokensCarrying(a)) + CopiesIn(a, resyncValueJobs)

C7_Witness ==
    /\ BothCompleted /\ DistinctTokens /\ Retried
    /\ resyncValueJobs # EmptyBag

----------------------------------------------------------------------------
(* C5, C6: the bid-event feed *)

RECURSIVE Concat(_)
Concat(seqs) == IF seqs = <<>> THEN <<>> ELSE Head(seqs).events \o Concat(Tail(seqs))

Returned == Concat(pages)
Direction == IF query.sortDirection = "" THEN "desc" ELSE query.sortDirection

\* The events the request's filters admit.
Eligible ==
    {r \in bid_events :
        /\ query.contract \in {"", r.contract}
        /\ (query.startTimestamp # Undefined => query.startTimestamp <= r.created_at)
        /\ (query.endTimestamp # Undefined => r.created_at <= query.endTimestamp)}

StrictlyBefore(r, o) ==
    IF Direction = "asc"
    THEN r.created_at < o.created_at \/ (r.created_at = o.created_at /\ r.id < o.id)
    ELSE r.created_at > o.created_at \/ (r.created_at = o.created_at /\ r.id > o.id)

\* C5: the pages before the last are full and the sequence ends with the
\* first page shorter than limit; the pages then hold every eligible
\* event exactly once, in strict (created_at, id) order of the direction.
C5_PaginationCompleteness ==
    /\ \A n \in 1..Len(pages) :
          (Len(pages[n].events) < query.limit) <=> (finished /\ n = Len(pages))
    /\ \A i, j \in 1..Len(Returned) : i < j => StrictlyBefore(Returned[i], Returned[j])
    /\ {Returned[i] : i \in 1..Len(Returned)} \subseteq Eligible
    /\ finished => /\ pages # <<>>
                   /\ {Returned[i] : i \in 1..Len(Returned)} = Eligible
                   /\ Len(Returned) = Cardinality(Eligible)

C5_Witness ==
    /\ finished
    /\ Len(pages) >= 3
    /\ Len(Returned) >= 3
    /\ \A i, j \in 1..Len(Returned) : Returned[i].created_at = Returned[j].created_at

\* C6: a page has a continuation exactly if it has limit rows, and the
\* continuation then reads back as the (created_at, id) of its last row.
C6_ContinuationRule ==
    \A n \in 1..Len(pages) :
        LET page == pages[n]
            last == page.events[Len(page.events)]
        IN  /\ (page.continuation # <<>>) <=> (Len(page.events) = query.limit)
            /\ page.continuation # <<>> =>
                  /\ StringToNumber(splitContinuation(page.continuation)[1]) = last.created_at
                  /\ StringToNumber(splitContinuation(page.continuation)[2]) = last.id

C6_Witness ==
    /\ Len(pages) = 2
    /\ pages[1].continuation # <<>>
    /\ pages[1].events[Len(pages[1].events)].created_at >= 10
    /\ pages[2].continuation = <<>>
    /\ Len(pages[2].events) = 1
    /\ query.limit = 2

----------------------------------------------------------------------------
(* Claims about the collection floor and the revalidation of orders *)

\* The step is a call of `method` on `collection`.
CallOf(method, collection) ==
    /\ calls' = calls + 1
    /\ lastCall'.method = method
    /\ lastCall'.collection = collection

SameFloor(row, x) ==
    row.floor_sell_id = x.floor_sell_id /\ row.floor_sell_value = x.floor_sell_value

\* C8: a call of recalculateCollectionFloorSell(c) whose computed floor has
\* the stored floor_sell_id and floor_sell_value leaves the row of c as it
\* was, updated_at included; the row changes only when the computed id or
\* value differs from the stored one, and no other row changes.
C8_FloorWriteAvoidance ==
    [][\A c \in CollectionIds :
          CallOf("recalculateCollectionFloorSell", c) =>
              LET x == lastCall'.x
              IN  /\ (x # <<>> /\ SameFloor(collections[c], x[1]))
                        => collections'[c] = collections[c]
                  /\ collections'[c] # collections[c]
                        => (x # <<>> /\ ~SameFloor(collections[c], x[1]))
                  /\ \A d \in CollectionIds \ {c} : collections'[d] = collections[d]]_vars

\* A call computed the stored floor at a time later than the row's
\* updated_at, and the row still has the updated_at it started with.
C8_Witness ==
    /\ lastCall.method = "recalculateCollectionFloorSell"
    /\ lastCall.x # <<>>
    /\ SameFloor(collections[lastCall.collection], lastCall.x[1])
    /\ collections[lastCall.collection].updated_at = 0
    /\ collections[lastCall.collection].floor_sell_maker = NULL
    /\ clock > 0

\* The orders of a collection: those on a token set with a token of the
\* collection, and those on a token set of the collection.
OrdersOfCollection(c) ==
    {o \in DOMAIN orders :
        \/ \E m \in token_sets_tokens :
              /\ m.token_set_id = orders[o].token_set_id
              /\ <<m.contract, m.token_id>> \in DOMAIN tokens
              /\ tokens[<<m.contract, m.token_id>>].collection_id = c
        \/ /\ orders[o].token_set_id \in DOMAIN token_sets
           /\ token_sets[orders[o].token_set_id].collection_id = c}

PassesFilter(o, side) ==
    /\ orders[o].side = side
    /\ orders[o].fillability_status = "fillable"
    /\ orders[o].approval_status = "approved"
    /\ orders[o].taker \in {NULL, ZeroAddress}

\* C9: a call of revalidateCollectionFloorAsk(c) when c has no fillable,
\* approved, open-taker sell order, and a call of revalidateCollectionTopBuy(c)
\* when c has no such buy order, add no job to the queue.
C9_NoCandidateRevalidation ==
    [][\A c \in CollectionIds :
          /\ (/\ CallOf("revalidateCollectionFloorAsk", c)
              /\ {o \in OrdersOfCollection(c) : PassesFilter(o, "sell")} = {})
                 => orderUpdatesById' = orderUpdatesById
          /\ (/\ CallOf("revalidateCollectionTopBuy", c)
              /\ {o \in OrdersOfCollection(c) : PassesFilter(o, "buy")} = {})
                 => orderUpdatesById' = orderUpdatesById]_vars

\* The floor ask of a collection was revalidated when its only sell orders
\* fail the filter, and the queue is empty.
C9_Witness ==
    /\ lastCall.method = "revalidateCollectionFloorAsk"
    /\ lastCall.outcome = "threw"
    /\ calls = 1
    /\ orderUpdatesById = <<>>
    /\ \A o \in DOMAIN orders :
          /\ o \in OrdersOfCollection(lastCall.collection)
          /\ orders[o].side = "sell"
          /\ ~PassesFilter(o, "sell")
    /\ orders["o1"].fillability_status # "fillable"
    /\ orders["o2"].taker = "0xtaker"

\* The sell orders of a collection are those on a token set with a token of it.
SellCandidates(c) ==
    {o \in DOMAIN orders :
        /\ \E m \in token_sets_tokens :
              /\ m.token_set_id = orders[o].token_set_id
              /\ <<m.contract, m.token_id>> \in DOMAIN tokens
              /\ tokens[<<m.contract, m.token_id>>].collection_id = c
        /\ PassesFilter(o, "sell")}

\* The buy orders of a collection are those on a token set of the collection.
BuyCandidates(c) ==
    {o \in DOMAIN orders :
        /\ orders[o].token_set_id \in DOMAIN token_sets
        /\ token_sets[orders[o].token_set_id].collection_id = c
        /\ PassesFilter(o, "buy")}

\* ... of which the collection-wide ones are on a token set without attribute.
CollectionWideBuyCandidates(c) ==
    {o \in BuyCandidates(c) : token_sets[orders[o].token_set_id].attribute_id = NULL}

LeastAsks(S) ==
    {a \in S : \A b \in S :
        \/ orders[a].value < orders[b].value
        \/ (orders[a].value = orders[b].value /\ orders[a].fee_bps <= orders[b].fee_bps)}

GreatestBids(S) == {a \in S : \A b \in S : orders[a].value >= orders[b].value}

\* The step adds exactly one revalidation job, for an order of S.
EnqueuesOneOf(S) ==
    /\ Len(orderUpdatesById') = Len(orderUpdatesById) + 1
    /\ SubSeq(orderUpdatesById', 1, Len(orderUpdatesById)) = orderUpdatesById
    /\ orderUpdatesById'[Len(orderUpdatesById')].id \in S
    /\ orderUpdatesById'[Len(orderUpdatesById')].trigger = [kind |-> "revalidation"]

\* Every job in the queue is for an order that passes the filter.
OnlyFilteredOrdersEnqueued ==
    \A i \in 1..Len(orderUpdatesById) :
        \/ /\ orderUpdatesById[i].context[1] = "revalidate-collection-floor-sell"
           /\ PassesFilter(orderUpdatesById[i].id, "sell")
        \/ /\ orderUpdatesById[i].context[1] = "revalidate-collection-top-buy"
           /\ PassesFilter(orderUpdatesById[i].id, "buy")

\* C10 as stated: with a candidate, revalidateCollectionFloorAsk(c) adds exactly
\* one job, for a sell order least by (value, fee_bps) among the fillable,
\* approved, open-taker sell orders of c, and revalidateCollectionTopBuy(c) adds
\* exactly one job, for a buy order of greatest value among the fillable,
\* approved, open-taker buy orders of c; no job is for an order failing the filter.
C10_BestOrderRevalidation ==
    /\ []OnlyFilteredOrdersEnqueued
    /\ [][\A c \in CollectionIds :
             /\ (CallOf("revalidateCollectionFloorAsk", c) /\ SellCandidates(c) # {})
                   => EnqueuesOneOf(LeastAsks(SellCandidates(c)))
             /\ (CallOf("revalidateCollectionTopBuy", c) /\ BuyCandidates(c) # {})
                   => EnqueuesOneOf(GreatestBids(BuyCandidates(c)))]_vars

\* C10 amended: the same, where the buy orders that count are those on a
\* token set of c without attribute; buy orders on an attribute token set are
\* neither candidates nor ever enqueued by revalidateCollectionTopBuy.
C10_BestCollectionWideOrderRevalidation ==
    /\ []OnlyFilteredOrdersEnqueued
    /\ [][\A c \in CollectionIds :
             /\ (CallOf("revalidateCollectionFloorAsk", c) /\ SellCandidates(c) # {})
                   => EnqueuesOneOf(LeastAsks(SellCandidates(c)))
             /\ (CallOf("revalidateCollectionTopBuy", c) /\ CollectionWideBuyCandidates(c) # {})
                   => EnqueuesOneOf(GreatestBids(CollectionWideBuyCandidates(c)))]_vars

\* revalidateCollectionTopBuy was called on a collection with a bid of value 1
\* on its collection-wide token set and a bid of greater value on an
\* attribute token set, both passing the filter; the former was enqueued.
C10_Witness ==
    /\ lastCall.method = "revalidateCollectionTopBuy"
    /\ lastCall.outcome = "returned"
    /\ BuyCandidates(lastCall.collection) = {"o1", "o2"}
    /\ CollectionWideBuyCandidates(lastCall.collection) = {"o2"}
    /\ orders["o1"].value > orders["o2"].value
    /\ Len(orderUpdatesById) = 1
    /\ orderUpdatesById[1].id = "o2"

----------------------------------------------------------------------------
(* Claims about single steps of the indexing worker *)

\* Worker w runs the statement it is about to run.
Acts(w) == pc'[w] # pc[w]

AttributeStateUnchanged ==
    /\ attribute_keys' = attribute_keys
    /\ attributes' = attributes
    /\ token_attributes' = token_attributes

NoRecountScheduled == resyncKeyJobs' = resyncKeyJobs /\ resyncValueJobs' = resyncValueJobs

\* C11: when the UPDATE of a job finds no row for its (contract, tokenId),
\* the job completes on that step without a failure or a retry, and the step
\* changes no attribute key, attribute or link, schedules no recount job and
\* writes no token row (so no metadata_indexed).
C11_MissingTokenNoOp ==
    [][\A w \in Workers :
          (/\ pc[w] = "updateToken"
           /\ TokenRef(job[w].data) \notin DOMAIN tokens
           /\ Acts(w))
          => /\ pc'[w] = "idle"
             /\ Len(completed') = Len(completed) + 1
             /\ completed'[Len(completed')].data = job[w].data
             /\ queue' = queue
             /\ failed' = failed
             /\ AttributeStateUnchanged
             /\ NoRecountScheduled
             /\ tokens' = tokens]_vars

\* The job for the missing token t2 completed on its first attempt after the
\* other job had created attribute state, and nothing failed.
C11_Witness ==
    /\ Len(completed) = 2
    /\ completed[2].data.tokenId = "t2"
    /\ completed[2].attemptsMade = 0
    /\ completed[1].data.tokenId = "t1"
    /\ completed[2].tables.links # {}
    /\ completed[2].tables = Tables
    /\ <<Contract, "t2">> \notin DOMAIN tokens
    /\ failed = {}

\* C12: a job whose UPDATE attribute_keys and INSERT INTO attribute_keys both
\* gave no id, because a concurrent job created the key in between, looks
\* the key up again and goes on with it (the key exists, so the lookup
\* resolves); it does not fail.
C12_CreateRaceReattempt ==
    [][\A w \in Workers :
          (/\ pc[w] = "insertAttributeKey"
           /\ CurrentKeyId(w) \in DOMAIN attribute_keys
           /\ Acts(w))
          => /\ pc'[w] = "selectAttribute"
             /\ job'[w] = job[w]
             /\ queue' = queue]_vars

----------------------------------------------------------------------------
(* Claims about the contract-scope passes *)

TokensOfContract(contract) == {t \in DOMAIN tokens : t[1] = contract}

\* The jobs the step appends to the queue, if it only appends.
Appended == SubSeq(orderUpdatesById', Len(orderUpdatesById) + 1, Len(orderUpdatesById'))

\* The step is a pass of `method` over `contract` that writes no table and
\* appends one job for each token of the contract, up to the limit, each for
\* token:<contract>:<tokenId> and `side`, with the pass's one timestamp.
DispatchesPerToken(contract, side) ==
    /\ collections' = collections
    /\ tokens' = tokens
    /\ orders' = orders
    /\ Len(orderUpdatesById') >= Len(orderUpdatesById)
    /\ SubSeq(orderUpdatesById', 1, Len(orderUpdatesById)) = orderUpdatesById
    /\ Len(Appended) = IF Cardinality(TokensOfContract(contract)) < ContractTokensLimit
                       THEN Cardinality(TokensOfContract(contract))
                       ELSE ContractTokensLimit
    /\ \A i, j \in 1..Len(Appended) : Appended[i].tokenSetId = Appended[j].tokenSetId => i = j
    /\ \A i \in 1..Len(Appended) :
          /\ \E t \in TokensOfContract(contract) :
                Appended[i].tokenSetId = <<"token", contract, t[2]>>
          /\ Appended[i].side = side
          /\ Appended[i].trigger = [kind |-> "revalidation"]
          /\ Appended[i].context = <<"revalidate", side, Appended[i].tokenSetId, clock>>
          /\ DOMAIN Appended[i] = {"context", "tokenSetId", "side", "trigger"}

----------------------------------------------------------------------------
(* Claims about metadata_indexed *)

\* The step is the last statement of a job for token t that has gone
\* through all its attributes, and the job completes on it.
CompletesJobFor(t) ==
    \E w \in Workers :
        /\ pc[w] = "markIndexed"
        /\ Acts(w)
        /\ TokenRef(job[w].data) = t
        /\ idx[w] = Len(job[w].data.attributes) + 1
        /\ Len(completed') = Len(completed) + 1
        /\ completed'[Len(completed')].data = job[w].data
        /\ queue' = queue
        /\ failed' = failed

\* A job about to mark a token whose flag is TRUE writes no row.
NoWriteWhenIndexed ==
    \A w \in Workers :
        (pc[w] = "markIndexed" /\ tokens[TokenRef(job[w].data)].metadata_indexed = TRUE)
            => MarkIndexedRows(job[w].data) = {}

\* C14: metadata_indexed never goes from TRUE to FALSE; it goes from FALSE to
\* TRUE only on the last statement of a job that processed every attribute of
\* its payload and completes (never on a step of a job that fails); and a job
\* that finds it TRUE writes no row.
C14_MetadataIndexedSetLast ==
    /\ []NoWriteWhenIndexed
    /\ [][\A t \in DOMAIN tokens :
             /\ tokens[t].metadata_indexed => tokens'[t].metadata_indexed
             /\ (~tokens[t].metadata_indexed /\ tokens'[t].metadata_indexed)
                   => CompletesJobFor(t)]_vars

\* A retried job is about to mark a token that the other job has already
\* marked.
C14_Witness ==
    \E w \in Workers :
        /\ pc[w] = "markIndexed"
        /\ job[w].attemptsMade > 0
        /\ tokens[TokenRef(job[w].data)].metadata_indexed = TRUE
        /\ Len(completed) = 1
        /\ completed[1].data.tokenId = job[w].data.tokenId

----------------------------------------------------------------------------
(* Claims about addToQueue *)

HasAllFour(data) ==
    /\ {"collection", "contract", "tokenId", "attributes"} \subseteq DOMAIN data
    /\ data.collection # ""
    /\ data.contract # ""
    /\ data.tokenId # ""

\* C15: a call of addToQueue adds to the queue, in their order, exactly the
\* payloads of its argument that have collection, contract, tokenId and
\* attributes; a payload that lacks one is not added, and does not keep the
\* others of the call from being added.
C15_EnqueueFilter ==
    [][CallOf("addToQueue", "") =>
          LET infos == lastCall'.x
              kept == SelectSeq(infos, HasAllFour)
          IN  /\ Len(queue') = Len(queue) + Len(kept)
              /\ SubSeq(queue', 1, Len(queue)) = queue
              /\ \A n \in 1..Len(kept) :
                    /\ queue'[Len(queue) + n].data = kept[n]
                    /\ queue'[Len(queue) + n].attemptsMade = 0]_vars

\* A call with a payload without attributes followed by a complete one
\* added the complete one alone.
C15_Witness ==
    /\ lastCall.method = "addToQueue"
    /\ calls = 1
    /\ Len(lastCall.x) = 2
    /\ "attributes" \notin DOMAIN lastCall.x[1]
    /\ DOMAIN lastCall.x[1] = {"collection", "contract", "tokenId", "imageUrl"}
    /\ HasAllFour(lastCall.x[2])
    /\ Len(queue) = 1
    /\ queue[1].data = lastCall.x[2]

----------------------------------------------------------------------------
(* Claims about sample_images *)

\* The list the ring holds after the images of a sequence of linking jobs:
\* no image and an image already in the list leave it; a new image goes to
\* the front, and the fourth entry leaves a list of four.
RECURSIVE RingAfter(_)
RingAfter(images) ==
    IF images = <<>> THEN <<>>
    ELSE LET before == RingAfter(SubSeq(images, 1, Len(images) - 1))
             image == images[Len(images)]
         IN  IF image = "" \/ image \in Range(before) THEN before
             ELSE IF Len(before) < 4 THEN <<image>> \o before
             ELSE <<image>> \o SubSeq(before, 1, 3)

ImagesOfCompleted(n) == [i \in 1..n |-> completed[i].data.imageUrl]

RingAttribute == AttributeId(Collection, "k2", 1)

\* C16: after each of the jobs that link the attribute one after the other,
\* its sample_images is the ring of the images so far: a job with no image
\* or with an image in the list leaves the list, and after the distinct
\* images a, b, c, d, e in that order the list is <<e, d, c, b>>.
C16_SampleImageRing ==
    \A n \in 1..Len(completed) :
        LET list == completed[n].tables.attrs[RingAttribute].sample_images
        IN  /\ list = RingAfter(ImagesOfCompleted(n))
            /\ (SelectSeq(ImagesOfCompleted(n), LAMBDA x : x # "") = <<"a", "b", "c", "d", "e">>)
                  => list = <<"e", "d", "c", "b">>

\* The jobs with the images a, b, c, d, e and then b again have completed
\* and the list is <<e, d, c, b>>.
C16_Witness ==
    /\ Len(completed) = 6
    /\ ImagesOfCompleted(6) = <<"a", "b", "c", "d", "e", "b">>
    /\ attributes[RingAttribute].sample_images = <<"e", "d", "c", "b">>
    /\ completed[5].tables.attrs[RingAttribute].sample_images = <<"e", "d", "c", "b">>
    /\ completed[4].tables.attrs[RingAttribute].sample_images = <<"d", "c", "b", "a">>

----------------------------------------------------------------------------
(* Claims about a revalidation without candidate *)

\* C17: a call of revalidateCollectionFloorAsk or revalidateCollectionTopBuy
\* whose query finds no order takes no action and returns normally: it adds
\* no job and raises no error.
C17_NoCandidateIsNoOp ==
    [][\A c \in CollectionIds :
          /\ (CallOf("revalidateCollectionFloorAsk", c) /\ FloorAskOrders(c) = {})
                => (lastCall'.outcome = "returned" /\ orderUpdatesById' = orderUpdatesById)
          /\ (CallOf("revalidateCollectionTopBuy", c) /\ TopBuyOrders(c) = {})
                => (lastCall'.outcome = "returned" /\ orderUpdatesById' = orderUpdatesById)]_vars

----------------------------------------------------------------------------
(* Claims about the links of a token *)

LinksOfTokenAt(n) ==
    {l \in completed[n].tables.links : l.token = TokenRef(completed[n].data)}

\* C18: when a job for an existing token completes, with no other job
\* running, the links of its token are the (key, value) pairs of its
\* payload, one link per pair: links of an earlier pass that the payload does
\* not carry are gone, and a pair the payload repeats is linked once.
C18_LinkReconciliation ==
    \A n \in 1..Len(completed) :
        /\ {AttributeIdOfLink(l) : l \in LinksOfTokenAt(n)} = PairsOf(completed[n].data)
        /\ Cardinality(LinksOfTokenAt(n)) = Cardinality(PairsOf(completed[n].data))

\* A pass linked t1 to two attributes; the next pass, whose payload repeats
\* one pair and carries neither of them, has completed.
C18_Witness ==
    /\ Len(completed) >= 2
    /\ completed[1].data.tokenId = "t1"
    /\ completed[2].data.tokenId = "t1"
    /\ Cardinality(PairsOf(completed[1].data)) = 2
    /\ Len(completed[2].data.attributes) = 2
    /\ Cardinality(PairsOf(completed[2].data)) = 1
    /\ PairsOf(completed[1].data) \cap PairsOf(completed[2].data) = {}
    /\ Cardinality(LinksOfTokenAt(2)) = 1

----------------------------------------------------------------------------
(* Claims about the recount jobs *)

\* The links the step removes.
RemovedLinks == token_attributes \ token_attributes'

\* The step adds one key-recount job for (collection, key) and one
\* value-recount job for (collection, key, value) per row of `rows`, and no
\* other job.
SchedulesRecountsFor(collection, rows) ==
    /\ \A k \in Keys :
          CopiesIn(<<collection, k>>, resyncKeyJobs') =
              CopiesIn(<<collection, k>>, resyncKeyJobs)
                  + Cardinality({l \in rows : l.key = k})
    /\ \A k \in Keys, v \in Values :
          CopiesIn(<<collection, k, v>>, resyncValueJobs') =
              CopiesIn(<<collection, k, v>>, resyncValueJobs)
                  + Cardinality({l \in rows : l.key = k /\ l.value = v})
    /\ BagToSet(resyncKeyJobs') \subseteq {<<collection, k>> : k \in Keys}
    /\ BagToSet(resyncValueJobs') \subseteq {<<collection, k, v>> : k \in Keys, v \in Values}

\* C19: links are removed only by a job's DELETE, whose next statement
\* schedules one key-recount and one value-recount job per removed link; a
\* job that removed no link schedules none, no other step schedules any, and
\* no step lowers a token_count or an attribute_count.
C19_RecountScheduling ==
    [][/\ \A w \in Workers :
             /\ (pc[w] = "deleteTokenAttributes" /\ Acts(w))
                   => /\ pc'[w] = "scheduleRefresh"
                      /\ attributesToRefresh'[w] = RemovedLinks
                      /\ job'[w] = job[w]
                      /\ NoRecountScheduled
             /\ (pc[w] = "scheduleRefresh" /\ Acts(w))
                   => SchedulesRecountsFor(job[w].data.collection, attributesToRefresh[w])
       /\ RemovedLinks # {} => \E w \in Workers : pc[w] = "deleteTokenAttributes" /\ Acts(w)
       /\ (\A w \in Workers : ~(pc[w] = "scheduleRefresh" /\ Acts(w))) => NoRecountScheduled
       /\ \A a \in DOMAIN attributes : attributes'[a].token_count >= attributes[a].token_count
       /\ \A k \in DOMAIN attribute_keys :
             attribute_keys'[k].attribute_count >= attribute_keys[k].attribute_count]_vars

\* A job removed the links of a token to the two values of k1: two
\* key-recount jobs for k1 and one value-recount job for each value are
\* scheduled, and the counters still count the removed links.
C19_Witness ==
    /\ CopiesIn(<<Collection, "k1">>, resyncKeyJobs) = 2
    /\ CopiesIn(<<Collection, "k1", 1>>, resyncValueJobs) = 1
    /\ CopiesIn(<<Collection, "k1", 2>>, resyncValueJobs) = 1
    /\ token_attributes = {}
    /\ attributes[AttributeId(Collection, "k1", 1)].token_count = 1
    /\ attribute_keys[KeyId(Collection, "k1")].attribute_count = 2
    /\ \E n \in 1..Len(completed) : completed[n].data.attributes = <<>>

----------------------------------------------------------------------------
(* Claims about attribute_count *)

\* The attributes rows of a key; no statement of the worker deletes one.
AttributeRowsOf(k) == {a \in DOMAIN attributes : KeyId(a[1], a[2]) = k}

AttributeCountIsRowsInserted ==
    \A k \in DOMAIN attribute_keys :
        attribute_keys[k].attribute_count = Cardinality(AttributeRowsOf(k))

\* C20: in every state reached by interleaved indexing jobs, a key's
\* attribute_count is the number of attributes rows inserted for it; a step
\* raises it by the number of rows it created (one for a created row, none
\* for a conflicting insert) and no step lowers it or removes a row, whatever
\* links are deleted.
C20_AttributeCountInvariant ==
    /\ []AttributeCountIsRowsInserted
    /\ [][/\ DOMAIN attributes \subseteq DOMAIN attributes'
          /\ \A k \in DOMAIN attribute_keys :
                /\ k \in DOMAIN attribute_keys'
                /\ attribute_keys'[k].attribute_count - attribute_keys[k].attribute_count
                      = Cardinality({a \in DOMAIN attributes' \ DOMAIN attributes :
                                        KeyId(a[1], a[2]) = k})
          /\ \A w \in Workers :
                (pc[w] = "insertAttribute" /\ Acts(w)
                    /\ CurrentAttributeId(w) \in DOMAIN attributes)
                   => attribute_keys' = attribute_keys]_vars

\* A key counts two attributes, one of which no token carries any more, and a
\* job completed after a failed attempt.
C20_Witness ==
    /\ \E k \in DOMAIN attribute_keys :
          /\ attribute_keys[k].attribute_count = 2
          /\ \E a \in AttributeRowsOf(k) : LinksTo(a) = {}
    /\ resyncValueJobs # EmptyBag
    /\ \E n \in 1..Len(completed) : completed[n].attemptsMade > 0

----------------------------------------------------------------------------
(* Claims about the filters of the bid-event feed *)

\* The window of the request: a bound that is not supplied has its default.
WindowStart == IF query.startTimestamp = Undefined THEN 0 ELSE query.startTimestamp
WindowEnd ==
    IF query.endTimestamp = Undefined THEN DefaultEndTimestamp ELSE query.endTimestamp

\* The events in the requested direction when no filter is given.
Unfiltered ==
    OrderBy(bid_events, Direction)

PositionIn(seq, r) == CHOOSE n \in 1..Len(seq) : seq[n] = r

\* C21: every event of every page has its created_at in the inclusive
\* window [startTimestamp, endTimestamp] (0 and the default end when a bound
\* is not supplied) and the requested contract when one is given, and the
\* events returned keep the relative order they have without any filter.
C21_FeedFilters ==
    /\ \A i \in 1..Len(Returned) :
          /\ WindowStart <= Returned[i].created_at
          /\ Returned[i].created_at <= WindowEnd
          /\ query.contract # "" => Returned[i].contract = query.contract
    /\ \A i, j \in 1..Len(Returned) :
          i < j => PositionIn(Unfiltered, Returned[i]) < PositionIn(Unfiltered, Returned[j])

----------------------------------------------------------------------------
(* Claims about the bound of sample_images *)

SampleImagesBounded ==
    \A a \in DOMAIN attributes :
        LET list == attributes[a].sample_images
        IN  /\ Len(list) <= 4
            /\ \A i, j \in 1..Len(list) : list[i] = list[j] => i = j
            /\ \A i \in 1..Len(list) : list[i] # ""

\* The step leaves the list, or puts an image the list did not hold in
\* front of the entries it keeps, which stay in their order from the front.
AddsInFront(list, after) ==
    \/ after = list
    \/ /\ after # <<>>
       /\ Head(after) \notin Range(list)
       /\ Len(after) <= Len(list) + 1
       /\ Tail(after) = SubSeq(list, 1, Len(after) - 1)

\* C22: an attribute is created with sample_images unset, and in every state
\* reached by interleaved indexing jobs sample_images has at most 4 entries
\* and no duplicate; every step that changes it puts the added image first,
\* so the list is ordered most recently added first.
C22_SampleImagesBound ==
    /\ []SampleImagesBounded
    /\ [][/\ \A a \in DOMAIN attributes :
                /\ a \in DOMAIN attributes'
                /\ AddsInFront(attributes[a].sample_images, attributes'[a].sample_images)
          /\ \A a \in DOMAIN attributes' \ DOMAIN attributes :
                attributes'[a].sample_images = <<>>]_vars

\* The job of image e linked the attribute before the job of image d, which
\* was started first: d is in front of e and the oldest entry a has left.
C22_Witness ==
    /\ RingAttribute \in DOMAIN attributes
    /\ attributes[RingAttribute].sample_images = <<"d", "e", "c", "b">>
    /\ \E w \in Workers : pc[w] # "idle"

----------------------------------------------------------------------------
(* Claims about the lower bound of token_count *)

TokenCountCoversLinks ==
    \A a \in DOMAIN attributes : attributes[a].token_count >= Cardinality(LinksTo(a))

\* C23: from tables in which every token_count is its number of links, in
\* every state reached by interleaved indexing jobs, their duplicates and
\* their retries, each attribute's token_count is at least the number of
\* token_attributes rows that reference it, and no step lowers a token_count.
C23_TokenCountNeverUndercounts ==
    /\ C2_TokenCountIsLinkCount
    /\ []TokenCountCoversLinks
    /\ [][\A a \in DOMAIN attributes :
             /\ a \in DOMAIN attributes'
             /\ attributes'[a].token_count >= attributes[a].token_count]_vars

\* After a retried job, one attribute is linked by two tokens and counts
\* two, and another counts more than the links it has left.
C23_Witness ==
    /\ \E a \in DOMAIN attributes :
          attributes[a].token_count = 2 /\ Cardinality(LinksTo(a)) = 2
    /\ \E b \in DOMAIN attributes :
          /\ Cardinality(LinksTo(b)) >= 1
          /\ attributes[b].token_count > Cardinality(LinksTo(b))
    /\ \E n \in 1..Len(completed) : completed[n].attemptsMade > 0

----------------------------------------------------------------------------
(* Claims about a collection without floor *)

\* No token of the collection has the id of an order as its floor_sell_id.
NoTokenWithFloorOrder(c) ==
    \A t \in DOMAIN tokens :
        tokens[t].collection_id = c => tokens[t].floor_sell_id \notin DOMAIN orders

\* C24: a call of recalculateCollectionFloorSell(c) when no token of c has a
\* cached floor-sell order returns and leaves the row of c as it was, floor,
\* maker, source, validity interval and updated_at, whatever floor the row
\* stores.
C24_EmptyFloorLeavesCache ==
    [][\A c \in CollectionIds :
          (CallOf("recalculateCollectionFloorSell", c) /\ NoTokenWithFloorOrder(c))
              => /\ lastCall'.outcome = "returned"
                 /\ collections' = collections]_vars

\* The collection whose two tokens have no floor order was recalculated at
\* a later time, and its row still stores the floor o2 with the updated_at
\* it started with.
C24_Witness ==
    /\ lastCall.method = "recalculateCollectionFloorSell"
    /\ lastCall.collection = "c1"
    /\ NoTokenWithFloorOrder("c1")
    /\ \E t \in DOMAIN tokens : tokens[t].floor_sell_id = "gone"
    /\ collections["c1"].floor_sell_id = "o2"
    /\ collections["c1"].floor_sell_value = MaxPrice
    /\ collections["c1"].updated_at = 0
    /\ clock > 1

----------------------------------------------------------------------------
(* Claims about paging while events are appended *)

\* The events of the table when the first page was served: events are
\* appended after it, with ids past MaxEvents.
ExistedAtFirstPage == {r \in bid_events : r.id <= MaxEvents}

TimesReturned(r) == Cardinality({i \in 1..Len(Returned) : Returned[i] = r})

\* C25: while events greater in (created_at, id) than every event of the
\* table are appended between the page requests, in either direction no
\* event is on two pages, and when the sequence has ended every event that
\* was in the table at the first page and matches the filters has been
\* returned exactly once.
C25_PaginationUnderAppends ==
    /\ \A i, j \in 1..Len(Returned) : Returned[i].id = Returned[j].id => i = j
    /\ finished => \A r \in ExistedAtFirstPage \cap Eligible : TimesReturned(r) = 1

\* A descending sequence of three pages has ended; two events were appended
\* while it ran, match the filters and are on no page, and the three events
\* of the first page's table, all of one created_at, are on the pages.
C25_Witness ==
    /\ finished
    /\ Direction = "desc"
    /\ Len(pages) >= 3
    /\ Cardinality(ExistedAtFirstPage \cap Eligible) = 3
    /\ \A r, o \in ExistedAtFirstPage : r.created_at = o.created_at
    /\ Cardinality({r \in Eligible \ ExistedAtFirstPage : TimesReturned(r) = 0}) = 2

====
